---- MODULE Spec2Model ----
(***************************************************************************)
(* Multi-cluster traffic controller: the Ingress agent (one per data-plane *)
(* cluster, patching one hub DNS record) and the hub Gateway reconciler.   *)
(* A reconcile pass is a sequence of steps, one action per blocking call   *)
(* on the API server or on a service; users, load balancers, the issuer    *)
(* and the other reconcilers act between the calls of a pass.  The outcome *)
(* of a call (it fails or not) is an input of its action.                  *)
(***************************************************************************)
EXTENDS Integers, Sequences, FiniteSets, TLC

VARIABLES
  ingress,          \* cluster -> the Ingress object stored in that cluster
  dnsRecord,        \* host -> endpoints of the hub DNSRecord of that host
  hubSecrets,       \* host -> data of the hub TLS secret, NoSecret when not issued
  workloadSecrets,  \* cluster -> host -> data of the copied secret
  ingressRun,       \* cluster -> the Ingress.Reconcile pass in flight there
  ingressPass,      \* what the Ingress.Reconcile pass did that returned in the last step
  envBudget,        \* user / load-balancer changes left while the agents run
  faultBudget,      \* failing external calls left (fair specification)
  gateway,          \* the Gateway object stored in the hub
  gwSecrets,        \* host -> the hub certificate secret of a Gateway host
  certificates,     \* the hosts a Certificate exists for
  gwRecords,        \* host -> the DNSRecord registered for a Gateway host
  clock,            \* the time metav1.Now() returns to the next pass
  gwQueue,          \* a request for the Gateway is in the work queue
  gwRun,            \* the GatewayReconciler.Reconcile pass in flight
  gwPass,           \* what the last finished GatewayReconciler.Reconcile pass did
  annotator,        \* an object under the cluster-sync annotator
  accessor,         \* a Gateway under the calls of its traffic accessor
  agent,            \* the agent process (cmd/agent/main.go) while it starts
  webhook           \* a call of WebhookServer.Start, its context and its listener

ingressVars == <<ingress, dnsRecord, hubSecrets, workloadSecrets, ingressRun, ingressPass>>
budgetVars == <<envBudget, faultBudget>>
gatewayVars == <<gateway, gwSecrets, certificates, gwRecords, clock, gwQueue, gwRun, gwPass>>
annotatorVars == <<annotator>>
accessorVars == <<accessor>>
agentVars == <<agent>>
webhookVars == <<webhook>>
standaloneVars == <<annotator, accessor, agent, webhook>>
vars == <<ingress, dnsRecord, hubSecrets, workloadSecrets, ingressRun, ingressPass,
          envBudget, faultBudget,
          gateway, gwSecrets, certificates, gwRecords, clock, gwQueue, gwRun, gwPass,
          annotator, accessor, agent, webhook>>

Range(s) == {s[i] : i \in DOMAIN s}

----------------------------------------------------------------------------
(* Constants of the program and of the modelled world                      *)

TrafficFinalizer == "kuadrant.io/traffic-management"

Clusters == {"c1", "c2"}
AllHosts == {"h1", "h2"}
OneHost == <<"h1">>
TwoHosts == <<"h1", "h2">>
LBTargets == {"10.0.0.1", "10.0.0.2"}
\* The address sets a load balancer publishes: none, or one address.
LBStatuses == {{}} \cup {{t} : t \in LBTargets}
\* The address the load balancer of cluster c has.
LBAddress(c) == IF c = "c1" THEN "10.0.0.1" ELSE "10.0.0.2"
NoSecret == "none"
SecretData == {"pem1"}

MaxEnvChanges == 1
MaxFaults == 1

----------------------------------------------------------------------------
(* ctrl.Result values                                                      *)

Result(requeue, after) == [Requeue |-> requeue, RequeueAfter |-> after]
NoRequeue == Result(FALSE, 0)
RequeueAfter10s == Result(TRUE, 10)

----------------------------------------------------------------------------
(* The Ingress object and its accessor                                     *)

NoIngress ==
  [exists |-> FALSE, deletionTimestamp |-> FALSE, finalizers |-> {},
   hosts |-> <<>>, tls |-> {}, lbStatus |-> {}]

\* A freshly created Ingress with one rule per host of hosts.
NewIngressObject(hosts) ==
  [exists |-> TRUE, deletionTimestamp |-> FALSE, finalizers |-> {},
   hosts |-> hosts, tls |-> {}, lbStatus |-> {}]

AddFinalizer(obj, f) == [obj EXCEPT !.finalizers = @ \cup {f}]
RemoveFinalizer(obj, f) == [obj EXCEPT !.finalizers = @ \ {f}]

IngressGetHosts(acc) == acc.hosts
IngressGetDNSTargets(acc) == acc.lbStatus
IngressAddTLS(acc, host, secretName) ==
  [acc EXCEPT !.tls = @ \cup {[host |-> host, secretName |-> secretName]}]

\* The object as the API server stores it after an Update: an object whose
\* deletion was requested disappears with its last finalizer.
Stored(obj) ==
  IF obj.deletionTimestamp /\ obj.finalizers = {} THEN NoIngress ELSE obj

----------------------------------------------------------------------------
(* The hub DNS record service                                              *)

Endpoint(clusterID, target) == [setID |-> clusterID, target |-> target]

PatchTargets(record, targets, hosts, clusterID, remove) ==
  [h \in DOMAIN record |->
     IF h \in Range(hosts)
     THEN LET others == {e \in record[h] : e.setID # clusterID}
          IN IF remove THEN others
             ELSE others \cup {Endpoint(clusterID, t) : t \in targets}
     ELSE record[h]]

PatchCall(targets, hosts, clusterID, remove) ==
  [targets |-> targets, hosts |-> hosts, clusterID |-> clusterID, remove |-> remove]

----------------------------------------------------------------------------
(* Ingress.Reconcile, Ingress.Handle and copySecretToWorkloadCluster       *)

\* The reconciler of the agent running in cluster c (cmd/agent/main.go).
IngressReconcilerShared(c) == [ClusterID |-> "c1"]
IngressReconciler(c) == [ClusterID |-> c]

\* What a pass of Ingress.Reconcile in cluster c did, logged by the step in
\* which it returns; after any other step the log is NoPass.
PassLog(c, fetched, patches, res, err, update) ==
  [cluster |-> c, fetched |-> fetched, patches |-> patches, res |-> res, err |-> err,
   update |-> update]
NoPass == PassLog("none", <<>>, <<>>, NoRequeue, FALSE, "none")

\* A pass in flight: the call it is blocked in (pc, and the host number i in
\* the hosts loop), its locals (current, target, the data of the secret
\* fetched last), whether the stored Ingress changed under it since it was
\* read (stale: its resourceVersion is not the one of the copy any more), the
\* GetCertificateSecret and PatchTargets calls made so far, and the record
\* and the workload secrets as they were when the pass began.
IngressRunAt(pc, i, current, target, secret, stale, fetched, patches, before) ==
  [pc |-> pc, i |-> i, current |-> current, target |-> target, secret |-> secret,
   stale |-> stale, fetched |-> fetched, patches |-> patches, before |-> before]
NoIngressRun ==
  IngressRunAt("idle", 0, NoIngress, NoIngress, NoSecret, FALSE, <<>>, <<>>,
               [record |-> [h \in AllHosts |-> {}], local |-> [h \in AllHosts |-> NoSecret]])

Fetched(run, host, result) ==
  [run EXCEPT !.fetched = Append(@, [host |-> host, result |-> result])]

\* Where a pass stands after a call: blocked in the next call, or returned.
IngressStage(run, return, res, err, update) ==
  [run |-> run, return |-> return, res |-> res, err |-> err, update |-> update]
IngressGoesTo(run, pc, i) ==
  IngressStage([run EXCEPT !.pc = pc, !.i = i], FALSE, NoRequeue, FALSE, "none")
IngressReturns(run, res, err, update) == IngressStage(run, TRUE, res, err, update)

\* The hosts loop of Handle from host number i on, then the DNS part.
HandleHosts(run, i) ==
  IF i <= Len(IngressGetHosts(run.target))
  THEN IngressGoesTo(run, "getSecret", i)
  ELSE IngressGoesTo(run, "patch", 0)

\* trafficAccessor.AddTLS(host, secret) after the copy, and the next host.
CopyDone(run, host) == HandleHosts([run EXCEPT !.target = IngressAddTLS(@, host, host)], run.i + 1)

\* Handle: the deletion branch first (line 403).
Handle(run) ==
  IF run.target.deletionTimestamp THEN IngressGoesTo(run, "patch", 0)
  ELSE HandleHosts(run, 1)

\* The PatchTargets call of the deletion branch of Handle and what Handle
\* does with its result (lines 403-410).
HandleDeletionIgnoringError(r, acc, record, fail) ==
  [acc |-> RemoveFinalizer(acc, TrafficFinalizer),
   record |-> IF fail THEN record
              ELSE PatchTargets(record, {}, IngressGetHosts(acc), r.ClusterID, TRUE),
   call |-> PatchCall({}, IngressGetHosts(acc), r.ClusterID, TRUE),
   res |-> NoRequeue, err |-> FALSE]
HandleDeletion(r, acc, record, fail) ==
  LET hosts == IngressGetHosts(acc)
      call == PatchCall({}, hosts, r.ClusterID, TRUE)
  IN IF fail
     THEN [acc |-> acc, record |-> record, call |-> call,
           res |-> RequeueAfter10s, err |-> TRUE]
     ELSE [acc |-> RemoveFinalizer(acc, TrafficFinalizer),
           record |-> PatchTargets(record, {}, hosts, r.ClusterID, TRUE),
           call |-> call, res |-> NoRequeue, err |-> FALSE]

\* The PatchTargets call of the DNS part of Handle and what Handle does with
\* its result (lines 440-465).
HandlePatchAlwaysAdding(r, acc, record, fail) ==
  LET targets == IngressGetDNSTargets(acc)
      hosts == IngressGetHosts(acc)
      call == PatchCall(targets, hosts, r.ClusterID, FALSE)
  IN IF fail
     THEN [acc |-> acc, record |-> record, call |-> call,
           res |-> RequeueAfter10s, err |-> TRUE]
     ELSE [acc |-> AddFinalizer(acc, TrafficFinalizer),
           record |-> PatchTargets(record, targets, hosts, r.ClusterID, FALSE),
           call |-> call, res |-> NoRequeue, err |-> FALSE]
HandlePatch(r, acc, record, fail) ==
  LET targets == IngressGetDNSTargets(acc)
      hosts == IngressGetHosts(acc)
      remove == ~(targets # {} /\ ~acc.deletionTimestamp)
      call == PatchCall(targets, hosts, r.ClusterID, remove)
  IN IF fail
     THEN [acc |-> acc, record |-> record, call |-> call,
           res |-> RequeueAfter10s, err |-> TRUE]
     ELSE [acc |-> IF remove THEN RemoveFinalizer(acc, TrafficFinalizer)
                   ELSE AddFinalizer(acc, TrafficFinalizer),
           record |-> PatchTargets(record, targets, hosts, r.ClusterID, remove),
           call |-> call, res |-> NoRequeue, err |-> FALSE]

\* Reconcile after Handle returned res without an error (lines 389-397).
AfterHandle(run, res) ==
  IF run.current # run.target THEN IngressGoesTo(run, "update", 0)
  ELSE IngressReturns(run, res, FALSE, "none")

----------------------------------------------------------------------------
(* The Ingress agents and their environment as actions                     *)

IngressInit ==
  /\ ingress = [c \in Clusters |-> NoIngress]
  /\ dnsRecord = [h \in AllHosts |-> {}]
  /\ hubSecrets = [h \in AllHosts |-> NoSecret]
  /\ workloadSecrets = [c \in Clusters |-> [h \in AllHosts |-> NoSecret]]
  /\ ingressPass = NoPass
  /\ ingressRun = [c \in Clusters |-> NoIngressRun]

\* What the agents find when they start. Users created Ingresses before: a
\* cluster has none, or one that still waits for its address, or one that its
\* load balancer already serves. No agent has run, so no Ingress carries the
\* finalizer or TLS and the record and the workload clusters are empty.
IngressStart ==
  /\ ingress \in [Clusters -> {NoIngress} \cup
                                {[NewIngressObject(OneHost) EXCEPT !.lbStatus = ts] :
                                   ts \in LBStatuses}]
  /\ \A c \in Clusters :
       ingress[c].lbStatus \subseteq {LBAddress(c)}
  /\ dnsRecord = [h \in AllHosts |-> {}]
  /\ hubSecrets = [h \in AllHosts |-> NoSecret]
  /\ workloadSecrets = [c \in Clusters |-> [h \in AllHosts |-> NoSecret]]
  /\ ingressPass = NoPass
  /\ ingressRun = [c \in Clusters |-> NoIngressRun]

\* The pass of cluster c in flight, if any, holds a copy of the Ingress that
\* is not the stored one any more.
IngressOutdated(c) ==
  [ingressRun EXCEPT ![c] = IF @.pc = "idle" THEN @ ELSE [@ EXCEPT !.stale = TRUE]]

\* A user creates the Ingress of cluster c.
UserCreate(c, hosts) ==
  /\ ~ingress[c].exists
  /\ ingress' = [ingress EXCEPT ![c] = NewIngressObject(hosts)]
  /\ ingressRun' = IngressOutdated(c)
  /\ ingressPass' = NoPass
  /\ UNCHANGED <<dnsRecord, hubSecrets, workloadSecrets>>

\* A user deletes the Ingress of cluster c: the API server removes it at
\* once unless a finalizer holds it.
UserDelete(c) ==
  /\ ingress[c].exists
  /\ ~ingress[c].deletionTimestamp
  /\ ingress' = [ingress EXCEPT ![c] = Stored([@ EXCEPT !.deletionTimestamp = TRUE])]
  /\ ingressRun' = IngressOutdated(c)
  /\ ingressPass' = NoPass
  /\ UNCHANGED <<dnsRecord, hubSecrets, workloadSecrets>>

\* The load balancer of cluster c publishes the addresses ts in the status.
LoadBalancerStatus(c, ts) ==
  /\ ingress[c].exists
  /\ ingress[c].lbStatus # ts
  /\ ingress' = [ingress EXCEPT ![c].lbStatus = ts]
  /\ ingressRun' = IngressOutdated(c)
  /\ ingressPass' = NoPass
  /\ UNCHANGED <<dnsRecord, hubSecrets, workloadSecrets>>

\* The certificate issuer publishes the hub secret of host h.
IssueSecret(h, d) ==
  /\ hubSecrets[h] = NoSecret
  /\ hubSecrets' = [hubSecrets EXCEPT ![h] = d]
  /\ ingressPass' = NoPass
  /\ UNCHANGED <<ingress, dnsRecord, workloadSecrets, ingressRun>>

----------------------------------------------------------------------------
(* The calls of an Ingress pass, one action each                           *)

\* The pass of cluster c goes on to its next call or returns.
IngressCommit(c, out) ==
  IF out.return
  THEN /\ ingressRun' = [ingressRun EXCEPT ![c] = NoIngressRun]
       /\ ingressPass' = PassLog(c, out.run.fetched, out.run.patches, out.res, out.err,
                                 out.update)
  ELSE /\ ingressRun' = [ingressRun EXCEPT ![c] = out.run]
       /\ ingressPass' = NoPass

\* r.Get of the Ingress (lines 378-382), target := current.DeepCopy().
IngressGet(c, fail) ==
  /\ ingressRun[c].pc = "idle"
  /\ LET run == IngressRunAt("idle", 0, ingress[c], ingress[c], NoSecret, FALSE, <<>>, <<>>,
                             [record |-> dnsRecord, local |-> workloadSecrets[c]])
     IN IngressCommit(c, IF fail \/ ~ingress[c].exists
                         THEN IngressReturns(NoIngressRun, NoRequeue, TRUE, "none")
                         ELSE Handle(run))
  /\ UNCHANGED <<ingress, dnsRecord, hubSecrets, workloadSecrets>>

\* r.Certificates.GetCertificateSecret(ctx, host), lines 420-429.
IngressGetCertificateSecret(c, fail) ==
  /\ ingressRun[c].pc = "getSecret"
  /\ LET run == ingressRun[c]
         host == IngressGetHosts(run.target)[run.i]
     IN IngressCommit(c, IF fail
                         THEN IngressReturns(Fetched(run, host, "error"), NoRequeue, TRUE, "none")
                         ELSE IF hubSecrets[host] = NoSecret
                         THEN AfterHandle(Fetched(run, host, "NotFound"), RequeueAfter10s)
                         ELSE IngressGoesTo([Fetched(run, host, "ok") EXCEPT
                                               !.secret = hubSecrets[host]],
                                            "create", run.i))
  /\ UNCHANGED <<ingress, dnsRecord, hubSecrets, workloadSecrets>>

\* r.Client.Create of the copy (lines 476-486): an AlreadyExists leads to the
\* Get and the Update of the copy, any other error is dropped.
IngressCreateCopy(c, fail) ==
  /\ ingressRun[c].pc = "create"
  /\ LET run == ingressRun[c]
         host == IngressGetHosts(run.target)[run.i]
     IN IF fail
        THEN /\ IngressCommit(c, CopyDone(run, host))
             /\ UNCHANGED workloadSecrets
        ELSE IF workloadSecrets[c][host] = NoSecret
        THEN /\ workloadSecrets' = [workloadSecrets EXCEPT ![c][host] = run.secret]
             /\ IngressCommit(c, CopyDone(run, host))
        ELSE /\ IngressCommit(c, IngressGoesTo(run, "getCopy", run.i))
             /\ UNCHANGED workloadSecrets
  /\ UNCHANGED <<ingress, dnsRecord, hubSecrets>>

\* r.Client.Get of the existing copy (line 478).
IngressGetCopy(c, fail) ==
  /\ ingressRun[c].pc = "getCopy"
  /\ IngressCommit(c, IF fail
                      THEN IngressReturns(ingressRun[c], NoRequeue, TRUE, "none")
                      ELSE IngressGoesTo(ingressRun[c], "updateCopy", ingressRun[c].i))
  /\ UNCHANGED <<ingress, dnsRecord, hubSecrets, workloadSecrets>>

\* copySecret.Data = tls.Data, r.Client.Update of the copy (lines 481-484).
IngressUpdateCopy(c, fail) ==
  /\ ingressRun[c].pc = "updateCopy"
  /\ LET run == ingressRun[c]
         host == IngressGetHosts(run.target)[run.i]
     IN IF fail
        THEN /\ IngressCommit(c, IngressReturns(run, NoRequeue, TRUE, "none"))
             /\ UNCHANGED workloadSecrets
        ELSE /\ workloadSecrets' = [workloadSecrets EXCEPT ![c][host] = run.secret]
             /\ IngressCommit(c, CopyDone(run, host))
  /\ UNCHANGED <<ingress, dnsRecord, hubSecrets>>

\* r.DNS.PatchTargets of Handle, then Reconcile comparing current and target.
IngressPatchTargets(c, fail) ==
  /\ ingressRun[c].pc = "patch"
  /\ LET run == ingressRun[c]
         h == IF run.target.deletionTimestamp
              THEN HandleDeletion(IngressReconciler(c), run.target, dnsRecord, fail)
              ELSE HandlePatch(IngressReconciler(c), run.target, dnsRecord, fail)
         run1 == [run EXCEPT !.target = h.acc, !.patches = Append(@, h.call)]
     IN /\ dnsRecord' = h.record
        /\ IngressCommit(c, IF h.err THEN IngressReturns(run1, h.res, TRUE, "none")
                            ELSE AfterHandle(run1, h.res))
  /\ UNCHANGED <<ingress, hubSecrets, workloadSecrets>>

\* r.Client.Update(ctx, target), line 391: its error is dropped.  The API
\* server refuses the write when the call fails, the Ingress is gone or it
\* was changed since the pass read it.
IngressUpdate(c, fail) ==
  /\ ingressRun[c].pc = "update"
  /\ LET run == ingressRun[c]
     IN IF fail \/ ~ingress[c].exists \/ run.stale
        THEN /\ IngressCommit(c, IngressReturns(run, NoRequeue, FALSE, "failed"))
             /\ UNCHANGED ingress
        ELSE /\ ingress' = [ingress EXCEPT ![c] = Stored(run.target)]
             /\ IngressCommit(c, IngressReturns(run, NoRequeue, FALSE, "stored"))
  /\ UNCHANGED <<dnsRecord, hubSecrets, workloadSecrets>>

\* A step of the pass of the agent of cluster c; failing: the call fails.
IngressStep(c, fail) ==
  \/ IngressGet(c, fail)
  \/ IngressGetCertificateSecret(c, fail)
  \/ IngressCreateCopy(c, fail)
  \/ IngressGetCopy(c, fail)
  \/ IngressUpdateCopy(c, fail)
  \/ IngressPatchTargets(c, fail)
  \/ IngressUpdate(c, fail)

----------------------------------------------------------------------------
(* The Gateway object, its accessor and the cluster-sync annotator          *)

ClusterSyncerAnnotation == "clustersync.kuadrant.io"
GatewayClusterLabelSelectorAnnotation == "kuadrant.io/gateway-cluster-label-selector"
ControllerName == "kuadrant.io/mctc-gw-controller"

\* The gateway classes the controller supports, the GatewayClass resources
\* that exist in the hub, and the class names a user may write.
SupportedClasses == {"mctc"}
GatewayClasses == {"mctc", "istio"}
ClassNames == {"mctc", "istio", "ghost"}

GatewayNamespace == "tenant-a"
GatewayHosts == {"a.example.com", "svc.eu.example.com", "shop.custom.org"}

NoTLS == [set |-> FALSE, certificateRefs |-> <<>>]
Listener(name, hostname, tls) == [name |-> name, hostname |-> hostname, tls |-> tls]

Condition(type, status, reason, message, time, generation) ==
  [Type |-> type, Status |-> status, Reason |-> reason, Message |-> message,
   LastTransitionTime |-> time, ObservedGeneration |-> generation]

RECURSIVE Join(_, _)
Join(strs, sep) ==
  IF Len(strs) = 0 THEN ""
  ELSE IF Len(strs) = 1 THEN strs[1]
  ELSE strs[1] \o sep \o Join(Tail(strs), sep)

\* Gateway.GetHosts: the listeners' hostnames, each once, in listener order.
RECURSIVE GetHostsFrom(_, _, _)
GetHostsFrom(listeners, i, hosts) ==
  IF i > Len(listeners) THEN hosts
  ELSE GetHostsFrom(listeners, i + 1,
                    IF listeners[i].hostname \in Range(hosts) THEN hosts
                    ELSE Append(hosts, listeners[i].hostname))
GetHostsOfEveryListener(gw) == [i \in DOMAIN gw.listeners |-> gw.listeners[i].hostname]
GetHosts(gw) == GetHostsFrom(gw.listeners, 1, <<>>)

\* Gateway.AddTLS that keeps the listeners of the host only.
AddTLSDroppingOthers(gw, host, secretName) ==
  [gw EXCEPT !.listeners =
     SelectSeq([i \in DOMAIN gw.listeners |->
                  [gw.listeners[i] EXCEPT !.tls =
                     [set |-> TRUE,
                      certificateRefs |-> <<[Name |-> secretName, Namespace |-> gw.namespace]>>]]],
               LAMBDA l : l.hostname = host)]

\* Gateway.AddTLS
AddTLS(gw, host, secretName) ==
  [gw EXCEPT !.listeners =
     [i \in DOMAIN gw.listeners |->
        IF gw.listeners[i].hostname = host
        THEN [gw.listeners[i] EXCEPT !.tls =
                [set |-> TRUE,
                 certificateRefs |-> <<[Name |-> secretName, Namespace |-> gw.namespace]>>]]
        ELSE gw.listeners[i]]]

\* Gateway.GetGatewayStatuses and Gateway.GetDNSTargets (hard-coded status)
GetGatewayStatuses(gw) ==
  <<[Addresses |-> <<[Type |-> "Hostname", Value |-> "172.32.200.0"]>>,
     Listeners |-> <<[Name |-> "test-listener-1", AttachedRoutes |-> 1]>>]>>

RECURSIVE DNSTargetsFrom(_, _, _)
DNSTargetsFrom(statuses, i, targets) ==
  IF i > Len(statuses) THEN targets
  ELSE DNSTargetsFrom(statuses, i + 1,
         IF Len(statuses[i].Addresses) = 0 THEN targets
         ELSE Append(targets, [TargetType |-> "IP", Value |-> statuses[i].Addresses[1].Value]))
GetDNSTargets(gw) == DNSTargetsFrom(GetGatewayStatuses(gw), 1, <<>>)

\* Gateway.GetListenerNameByHost: the name of the last listener of the host.
RECURSIVE ListenerNameFrom(_, _, _, _)
ListenerNameFrom(listeners, host, i, listenerName) ==
  IF i > Len(listeners) THEN listenerName
  ELSE ListenerNameFrom(listeners, host, i + 1,
                        IF listeners[i].hostname = host THEN listeners[i].name
                        ELSE listenerName)
GetListenerNameByHost(gw, host) == ListenerNameFrom(gw.listeners, host, 1, "")

\* Gateway.GetListenerStatusesByListenerName: the statuses of the listener in
\* all gateway statuses.
RECURSIVE ListenerStatusesFrom(_, _, _, _, _)
ListenerStatusesFrom(statuses, listenerName, i, j, found) ==
  IF i > Len(statuses) THEN found
  ELSE IF j > Len(statuses[i].Listeners)
  THEN ListenerStatusesFrom(statuses, listenerName, i + 1, 1, found)
  ELSE ListenerStatusesFrom(statuses, listenerName, i, j + 1,
         IF statuses[i].Listeners[j].Name = listenerName
         THEN Append(found, statuses[i].Listeners[j])
         ELSE found)
GetListenerStatusesByListenerName(gw, listenerName) ==
  ListenerStatusesFrom(GetGatewayStatuses(gw), listenerName, 1, 1, <<>>)

\* applyClusterSyncerAnnotationsToObject, on the annotation map of the object
SyncAnnotationKey(cluster) == ClusterSyncerAnnotation \o "/" \o cluster
applyReplacingAnnotations(annotations, clusters) ==
  [k \in {SyncAnnotationKey(c) : c \in Range(clusters)} |-> "True"]
applyClusterSyncerAnnotationsToObject(annotations, clusters) ==
  LET keys == {SyncAnnotationKey(c) : c \in Range(clusters)}
  IN [k \in DOMAIN annotations \cup keys |->
        IF k \in keys THEN "True" ELSE annotations[k]]

\* selectClusters
selectClustersForAnySelector(gw) ==
  IF GatewayClusterLabelSelectorAnnotation \in DOMAIN gw.annotations
  THEN <<"test_cluster_one">> ELSE <<>>
selectClusters(gw) ==
  IF DOMAIN gw.annotations = {}
  THEN <<>>
  ELSE LET selector == IF GatewayClusterLabelSelectorAnnotation \in DOMAIN gw.annotations
                       THEN gw.annotations[GatewayClusterLabelSelectorAnnotation]
                       ELSE ""
       IN IF selector = "type=test" THEN <<"test_cluster_one">> ELSE <<>>

----------------------------------------------------------------------------
(* The services the Gateway reconciler calls                                *)

EmptyMap == [k \in {} |-> ""]
NoGwSecret == [exists |-> FALSE, annotations |-> EmptyMap]
NewGwSecret == [exists |-> TRUE, annotations |-> EmptyMap]

\* The name of the certificate secret of a host.
CertificateSecretName(host) == host

\* CertificateService.EnsureCertificate: creates the Certificate of host when
\* there is none, and fails with AlreadyExists otherwise.
EnsureCertificate(certs, host) ==
  IF host \in certs
  THEN [certs |-> certs, result |-> "AlreadyExists"]
  ELSE [certs |-> certs \cup {host}, result |-> "ok"]

\* HostService.GetManagedZones, and the zone the reconciler hands to
\* RegisterHost: the first default zone, or the zero Zone.
ManagedZones ==
  <<[ID |-> "z-eu", Default |-> FALSE, DNSZone |-> "eu.example.com"],
    [ID |-> "z-root", Default |-> TRUE, DNSZone |-> "example.com"]>>
ZeroZone == [ID |-> "", Default |-> FALSE, DNSZone |-> ""]
RECURSIVE ChosenZoneFrom(_, _)
ChosenZoneFrom(zones, i) ==
  IF i > Len(zones) THEN ZeroZone
  ELSE IF zones[i].Default THEN zones[i]
  ELSE ChosenZoneFrom(zones, i + 1)
ChosenZone(zones, host) == ChosenZoneFrom(zones, 1)

\* HostService.RegisterHost: the DNSRecord of host, created when missing.
NoRecord == [exists |-> FALSE, endpoints |-> {}]
RegisterHost(records, host) ==
  IF records[host].exists THEN records
  ELSE [records EXCEPT ![host] = [exists |-> TRUE, endpoints |-> {}]]

\* HostService.AddEndPoints: the DNS targets of the accessor as the endpoints
\* of the records of its hosts.
AddEndPoints(records, gw) ==
  LET targets == {GetDNSTargets(gw)[i].Value : i \in DOMAIN GetDNSTargets(gw)}
  IN [h \in DOMAIN records |->
        IF h \in Range(GetHosts(gw)) /\ records[h].exists
        THEN [records[h] EXCEPT !.endpoints = targets]
        ELSE records[h]]

----------------------------------------------------------------------------
(* GatewayReconciler.Reconcile                                              *)

\* The log entry of one external call of a pass.
Call(op, host, result) ==
  [op |-> op, host |-> host, zone |-> "", result |-> result, conditions |-> <<>>]
RegisterCall(host, zone, result) ==
  [op |-> "RegisterHost", host |-> host, zone |-> zone, result |-> result,
   conditions |-> <<>>]
StatusCall(result, conditions) ==
  [op |-> "Status.Update", host |-> "", zone |-> "", result |-> result,
   conditions |-> conditions]

AcceptedCondition(generation, now) ==
  Condition("Accepted", "True", "Accepted", "Handled by " \o ControllerName,
            now, generation)

\* The initial Programmed condition of a pass.
InitialProgrammed(clusters, generation, now) ==
  IF Len(clusters) > 0
  THEN Condition("Programmed", "Unknown", "Pending", "Waiting for controller",
                 now, generation)
  ELSE Condition("Programmed", "False", "Pending", "No clusters match selection",
                 now, generation)

\* The final Programmed condition of a pass.
FinalProgrammedNextGeneration(clusters, generation, now) ==
  Condition("Programmed", "True", "Programmed",
            "Gateway configured in data plane cluster(s) - [" \o Join(clusters, ",") \o "]",
            now, generation + 1)
FinalProgrammed(clusters, generation, now) ==
  Condition("Programmed", "True", "Programmed",
            "Gateway configured in data plane cluster(s) - [" \o Join(clusters, ",") \o "]",
            now, generation)

\* What a pass returns when the secret of a host is not there yet.
SecretPendingNoRequeue == NoRequeue
SecretPendingResult == RequeueAfter10s

\* The secret sync of the hosts loop: the deep copy with the sync annotations
\* of the clusters, and whether it is written back.
SecretSyncAlways(secret, clusters) ==
  [updatedSecret |->
     [secret EXCEPT !.annotations = applyClusterSyncerAnnotationsToObject(@, clusters)],
   update |-> TRUE]
SecretSync(secret, clusters) ==
  LET updatedSecret ==
        [secret EXCEPT !.annotations = applyClusterSyncerAnnotationsToObject(@, clusters)]
  IN [updatedSecret |-> updatedSecret, update |-> updatedSecret # secret]

\* err != nil && !k8serrors.IsAlreadyExists(err) on the result of
\* EnsureCertificate.
EnsureAbortsOnExisting(result) == result # "ok"
EnsureAborts(result) == result \notin {"ok", "AlreadyExists"}

\* Whether the pass goes on after the initial status.
ProceedsAlways(clusters) == TRUE
Proceeds(clusters) == Len(clusters) > 0

\* The Gateway of the request is not found, or has a deletion timestamp.
SkipsMissingOnly(previous) == ~previous.exists
SkipsGateway(previous) == ~previous.exists \/ previous.deletionTimestamp

\* r.Update(ctx, gateway): the API server stores spec and metadata, keeps the
\* status, and counts a new generation when the spec changed.
UpdatedGateway(stored, gw) ==
  [stored EXCEPT !.listeners = gw.listeners,
                 !.annotations = gw.annotations,
                 !.className = gw.className,
                 !.generation = IF gw.listeners # stored.listeners
                                   \/ gw.className # stored.className
                                THEN @ + 1 ELSE @]

\* What a pass leaves behind and what it did.
GwPassLog(ran, previous, now, selected, clusters, calls, res, err) ==
  [ran |-> ran, previous |-> previous, now |-> now, selected |-> selected,
   clusters |-> clusters, calls |-> calls, res |-> res, err |-> err]

\* A pass in flight: the call it is blocked in (pc, and the host number i in
\* the two host loops), its locals (previous, gateway, clusters, the secret
\* fetched last), whether the stored Gateway changed under it since it was
\* read or written by the pass (stale: its resourceVersion is not the one of
\* the local copy any more), the calls made so far, and the hub as it was
\* when the pass began.
GwRunAt(pc, i, previous, gw, now, selected, clusters, secret, stale, calls, before) ==
  [pc |-> pc, i |-> i, previous |-> previous, gw |-> gw, now |-> now,
   selected |-> selected, clusters |-> clusters, secret |-> secret,
   stale |-> stale, calls |-> calls, before |-> before]

Logged(run, call) == [run EXCEPT !.calls = Append(@, call)]

\* Where a pass stands after a call: blocked in the next call, or returned.
Stage(run, return, res, err) == [run |-> run, return |-> return, res |-> res, err |-> err]
GoesTo(run, pc, i) == Stage([run EXCEPT !.pc = pc, !.i = i], FALSE, NoRequeue, FALSE)
Returns(run, res, err) == Stage(run, TRUE, res, err)

\* The final conditions (lines 234-251): the second status write, made when
\* the status is not the one fetched.
FinalStatusStage(run) ==
  LET conditions == <<AcceptedCondition(run.previous.generation, run.now),
                      FinalProgrammed(run.clusters, run.previous.generation, run.now)>>
      gw == [run.gw EXCEPT !.conditions = conditions]
  IN IF gw.conditions = run.previous.conditions
     THEN Returns([run EXCEPT !.gw = gw], NoRequeue, FALSE)
     ELSE GoesTo([run EXCEPT !.gw = gw], "status2", 0)

\* applyClusterSyncerAnnotationsToObject(gateway, clusters), then
\* r.Update(ctx, gateway) when the object is not the one fetched.
UpdateStageSkipping(run) == FinalStatusStage(run)
UpdateStage(run) ==
  LET gw == [run.gw EXCEPT
               !.annotations = applyClusterSyncerAnnotationsToObject(@, run.clusters)]
  IN IF gw = run.previous
     THEN FinalStatusStage([run EXCEPT !.gw = gw])
     ELSE GoesTo([run EXCEPT !.gw = gw], "update", 0)

\* The DNS part: RegisterHost for every host, then AddEndPoints.
DNSStage(run, i) ==
  IF i <= Len(GetHosts(run.gw)) THEN GoesTo(run, "register", i)
  ELSE GoesTo(run, "addEndpoints", 0)

\* The hosts loop (certificate, secret, secret sync, TLS) from host number i.
CertificatesStage(run, i) ==
  IF i <= Len(GetHosts(run.gw)) THEN GoesTo(run, "ensure", i)
  ELSE DNSStage(run, 1)

\* After the initial status (line 145).
ProgramStage(run) ==
  IF Proceeds(run.clusters) THEN CertificatesStage(run, 1)
  ELSE Returns(run, NoRequeue, FALSE)

\* gateway := previous.DeepCopy(), the conditions and the cluster selection
\* (lines 102-136): the first status write, made when the status is not the
\* one fetched.
InitialStatusStage(run) ==
  LET clusters == selectClusters(run.gw)
      conditions == <<AcceptedCondition(run.previous.generation, run.now),
                      InitialProgrammed(clusters, run.previous.generation, run.now)>>
      gw == [run.gw EXCEPT !.conditions = conditions]
      run1 == [run EXCEPT !.gw = gw, !.clusters = clusters, !.selected = TRUE]
  IN IF gw.conditions = run.previous.conditions
     THEN ProgramStage(run1)
     ELSE GoesTo(run1, "status1", 0)

----------------------------------------------------------------------------
(* The hub cluster around the Gateway reconciler                            *)

MaxClock == 3
MaxGeneration == 2

SelectorAnnotations ==
  {EmptyMap,
   [k \in {GatewayClusterLabelSelectorAnnotation} |-> "type=test"],
   [k \in {GatewayClusterLabelSelectorAnnotation} |-> "type=prod"],
   [k \in {"owner"} |-> "team-a"]}
ListenerLists ==
  {<<Listener("test-listener-1", "a.example.com", NoTLS)>>,
   <<Listener("api", "svc.eu.example.com", NoTLS),
     Listener("shop", "shop.custom.org", NoTLS)>>,
   <<Listener("test-listener-1", "a.example.com", NoTLS),
     Listener("test-listener-2", "a.example.com", NoTLS)>>}

NewGateway(className, annotations, listeners) ==
  [exists |-> TRUE, deletionTimestamp |-> FALSE, namespace |-> GatewayNamespace,
   className |-> className, annotations |-> annotations, listeners |-> listeners,
   generation |-> 1, conditions |-> <<>>]

NoGateway == [NewGateway("mctc", EmptyMap, <<>>) EXCEPT !.exists = FALSE]
NoHub ==
  [gateway |-> NoGateway, secrets |-> [h \in GatewayHosts |-> NoGwSecret],
   certs |-> {}, records |-> [h \in GatewayHosts |-> NoRecord]]
NoGwRun ==
  GwRunAt("idle", 0, NoGateway, NoGateway, 0, FALSE, <<>>, NoGwSecret, FALSE, <<>>, NoHub)
NoGwPass == GwPassLog(FALSE, NewGateway("mctc", EmptyMap, <<>>), 0, FALSE, <<>>, <<>>, NoRequeue, FALSE)

\* The event filter of SetupWithManager.
PredicateAccepts(gw) == gw.className \in SupportedClasses

GatewayIdle ==
  /\ gateway = NoGateway
  /\ gwSecrets = [h \in GatewayHosts |-> NoGwSecret]
  /\ certificates = {}
  /\ gwRecords = [h \in GatewayHosts |-> NoRecord]
  /\ clock = 0
  /\ gwQueue = FALSE
  /\ gwPass = NoGwPass
  /\ gwRun = NoGwRun

\* A Gateway was created; its create event went through the event filter.
GatewayInit ==
  /\ gateway \in {NewGateway(cl, a, ls) :
                    cl \in ClassNames, a \in SelectorAnnotations, ls \in ListenerLists}
  /\ gwSecrets = [h \in GatewayHosts |-> NoGwSecret]
  /\ certificates = {}
  /\ gwRecords = [h \in GatewayHosts |-> NoRecord]
  /\ clock = 0
  /\ gwQueue = PredicateAccepts(gateway)
  /\ gwPass = NoGwPass
  /\ gwRun = NoGwRun

\* The pass in flight, if any, holds a copy of the Gateway that is not the
\* stored one any more.
Outdated(run) == IF run.pc = "idle" THEN run ELSE [run EXCEPT !.stale = TRUE]

\* cert-manager issues the secret of a Certificate.
GwIssueSecret(h) ==
  /\ h \in certificates
  /\ ~gwSecrets[h].exists
  /\ gwSecrets' = [gwSecrets EXCEPT ![h] = NewGwSecret]
  /\ UNCHANGED <<gateway, certificates, gwRecords, clock, gwQueue, gwPass, gwRun>>

\* A user changes the class of the Gateway; the update event goes through
\* the event filter with the new object.
GwUserSetClass(cl) ==
  /\ gateway.exists /\ ~gateway.deletionTimestamp
  /\ gateway.className # cl
  /\ gateway.generation < MaxGeneration
  /\ gateway' = [gateway EXCEPT !.className = cl, !.generation = @ + 1]
  /\ gwQueue' = (gwQueue \/ PredicateAccepts(gateway'))
  /\ gwRun' = Outdated(gwRun)
  /\ UNCHANGED <<gwSecrets, certificates, gwRecords, clock, gwPass>>

\* A user deletes the Gateway; held: a finalizer of another controller keeps
\* the object.  The event goes through the event filter.
GwUserDelete(held) ==
  /\ gateway.exists /\ ~gateway.deletionTimestamp
  /\ gateway' = IF held THEN [gateway EXCEPT !.deletionTimestamp = TRUE]
                ELSE [gateway EXCEPT !.exists = FALSE]
  /\ gwQueue' = (gwQueue \/ PredicateAccepts(gateway'))
  /\ gwRun' = Outdated(gwRun)
  /\ UNCHANGED <<gwSecrets, certificates, gwRecords, clock, gwPass>>

\* What the Gateway reconciler finds in the hub cluster.
HubState ==
  [gateway |-> gateway, secrets |-> gwSecrets, certs |-> certificates,
   records |-> gwRecords]

----------------------------------------------------------------------------
(* The calls of a Gateway pass, one action each                             *)

\* The pass goes on to its next call or returns; queued: a request for the
\* Gateway is in the work queue after this step.
GwCommit(out, queued) ==
  IF out.return
  THEN /\ gwRun' = NoGwRun
       /\ gwPass' = GwPassLog(TRUE, out.run.previous, out.run.now, out.run.selected,
                              out.run.clusters, out.run.calls, out.res, out.err)
       /\ gwQueue' = (queued \/ out.res.Requeue \/ out.err)
  ELSE /\ gwRun' = out.run
       /\ gwPass' = gwPass
       /\ gwQueue' = queued

\* A write of the local copy of the Gateway is refused: the call fails, the
\* Gateway is gone (NotFound) or was changed since the copy was read (Conflict).
Refused(fail) == fail \/ ~gateway.exists \/ gwRun.stale

\* The worker takes the request from the queue: r.Client.Get of the Gateway
\* (lines 72-84).
GwGet(fail) ==
  /\ gwRun.pc = "idle"
  /\ gwQueue
  /\ clock < MaxClock
  /\ clock' = clock + 1
  /\ LET run == GwRunAt("getClass", 0, gateway, gateway, clock + 1, FALSE, <<>>,
                        NoGwSecret, FALSE, <<>>, HubState)
     IN GwCommit(IF fail THEN Returns(run, NoRequeue, TRUE)
                 ELSE IF SkipsGateway(gateway) THEN Returns(run, NoRequeue, FALSE)
                 ELSE GoesTo(run, "getClass", 0),
                 FALSE)
  /\ UNCHANGED <<gateway, gwSecrets, certificates, gwRecords>>

\* r.Client.Get of the GatewayClass (lines 90-100), then the conditions.
GwGetClass(fail) ==
  /\ gwRun.pc = "getClass"
  /\ GwCommit(IF fail THEN Returns(gwRun, NoRequeue, TRUE)
              ELSE IF gwRun.previous.className \notin GatewayClasses
              THEN Returns(gwRun, NoRequeue, FALSE)
              ELSE InitialStatusStage(gwRun),
              gwQueue)
  /\ UNCHANGED <<gateway, gwSecrets, certificates, gwRecords, clock>>

\* r.Status().Update(ctx, gateway), lines 136-142 (first = TRUE) and 245-251.
GwStatusUpdate(first, fail) ==
  /\ gwRun.pc = IF first THEN "status1" ELSE "status2"
  /\ IF Refused(fail)
     THEN /\ GwCommit(Returns(Logged(gwRun, StatusCall("error", gwRun.gw.conditions)),
                              NoRequeue, TRUE),
                      gwQueue)
          /\ UNCHANGED gateway
     ELSE LET stored == [gateway EXCEPT !.conditions = gwRun.gw.conditions]
              run == Logged([gwRun EXCEPT !.gw = stored],
                            StatusCall("ok", gwRun.gw.conditions))
          IN /\ gateway' = stored
             /\ GwCommit(IF first THEN ProgramStage(run)
                         ELSE Returns(run, NoRequeue, FALSE),
                         gwQueue \/ PredicateAccepts(stored))
  /\ UNCHANGED <<gwSecrets, certificates, gwRecords, clock>>

\* r.Certificates.EnsureCertificate(ctx, host, gateway), lines 154-157.
GwEnsureCertificate(fail) ==
  /\ gwRun.pc = "ensure"
  /\ LET host == GetHosts(gwRun.gw)[gwRun.i]
         ensured == IF fail THEN [certs |-> certificates, result |-> "error"]
                    ELSE EnsureCertificate(certificates, host)
         run == Logged(gwRun, Call("EnsureCertificate", host, ensured.result))
     IN /\ certificates' = ensured.certs
        /\ GwCommit(IF EnsureAborts(ensured.result) THEN Returns(run, NoRequeue, TRUE)
                    ELSE GoesTo(run, "getSecret", gwRun.i),
                    gwQueue)
  /\ UNCHANGED <<gateway, gwSecrets, gwRecords, clock>>

\* The TLS of the host on the local copy, and on to the next host.
TLSAdded(run, host) ==
  CertificatesStage([run EXCEPT !.gw = AddTLS(@, host, CertificateSecretName(host))],
                    run.i + 1)

\* r.Certificates.GetCertificateSecret(ctx, host), lines 160-168, and the
\* annotated copy of the secret (172-175).
GwGetCertificateSecret(fail) ==
  /\ gwRun.pc = "getSecret"
  /\ LET host == GetHosts(gwRun.gw)[gwRun.i]
         secret == gwSecrets[host]
         run == [gwRun EXCEPT !.secret = secret]
     IN GwCommit(IF fail
                 THEN Returns(Logged(run, Call("GetCertificateSecret", host, "error")),
                              NoRequeue, TRUE)
                 ELSE IF ~secret.exists
                 THEN Returns(Logged(run, Call("GetCertificateSecret", host, "NotFound")),
                              SecretPendingResult, FALSE)
                 ELSE IF SecretSync(secret, run.clusters).update
                 THEN GoesTo(Logged(run, Call("GetCertificateSecret", host, "ok")),
                             "secretUpdate", gwRun.i)
                 ELSE TLSAdded(Logged(run, Call("GetCertificateSecret", host, "ok")), host),
                 gwQueue)
  /\ UNCHANGED <<gateway, gwSecrets, certificates, gwRecords, clock>>

\* r.Update(ctx, updatedSecret), lines 175-181, then AddTLS (182).
GwSecretUpdate(fail) ==
  /\ gwRun.pc = "secretUpdate"
  /\ LET host == GetHosts(gwRun.gw)[gwRun.i]
     IN IF fail
        THEN /\ GwCommit(Returns(Logged(gwRun, Call("Secret.Update", host, "error")),
                                 NoRequeue, TRUE),
                         gwQueue)
             /\ UNCHANGED gwSecrets
        ELSE /\ gwSecrets' = [gwSecrets EXCEPT
                                ![host] = SecretSync(gwRun.secret, gwRun.clusters).updatedSecret]
             /\ GwCommit(TLSAdded(Logged(gwRun, Call("Secret.Update", host, "ok")), host),
                         gwQueue)
  /\ UNCHANGED <<gateway, certificates, gwRecords, clock>>

\* r.Host.RegisterHost(ctx, host, hostKey, chosenZone.DNSZone), lines 193-216.
GwRegisterHost(fail) ==
  /\ gwRun.pc = "register"
  /\ LET host == GetHosts(gwRun.gw)[gwRun.i]
         chosenZone == ChosenZone(ManagedZones, host)
     IN IF fail
        THEN /\ GwCommit(Returns(Logged(gwRun, RegisterCall(host, chosenZone.DNSZone, "error")),
                                 NoRequeue, TRUE),
                         gwQueue)
             /\ UNCHANGED gwRecords
        ELSE /\ gwRecords' = RegisterHost(gwRecords, host)
             /\ GwCommit(DNSStage(Logged(gwRun, RegisterCall(host, chosenZone.DNSZone, "ok")),
                                  gwRun.i + 1),
                         gwQueue)
  /\ UNCHANGED <<gateway, gwSecrets, certificates, clock>>

\* What the pass does with the result of AddEndPoints.
AfterAddEndPointsIgnoringErrors(run, failed) == UpdateStage(run)
AfterAddEndPoints(run, failed) ==
  IF failed THEN Returns(run, NoRequeue, TRUE) ELSE UpdateStage(run)

\* r.Host.AddEndPoints(ctx, trafficAccessor), lines 219-223.
GwAddEndPoints(fail) ==
  /\ gwRun.pc = "addEndpoints"
  /\ IF fail
     THEN /\ GwCommit(AfterAddEndPoints(Logged(gwRun, Call("AddEndPoints", "", "error")), TRUE),
                      gwQueue)
          /\ UNCHANGED gwRecords
     ELSE /\ gwRecords' = AddEndPoints(gwRecords, gwRun.gw)
          /\ GwCommit(AfterAddEndPoints(Logged(gwRun, Call("AddEndPoints", "", "ok")), FALSE),
                      gwQueue)
  /\ UNCHANGED <<gateway, gwSecrets, certificates, clock>>

\* r.Update(ctx, gateway), lines 225-232.
GwUpdate(fail) ==
  /\ gwRun.pc = "update"
  /\ IF Refused(fail)
     THEN /\ GwCommit(Returns(Logged(gwRun, Call("Gateway.Update", "", "error")),
                              NoRequeue, TRUE),
                      gwQueue)
          /\ UNCHANGED gateway
     ELSE LET stored == UpdatedGateway(gateway, gwRun.gw)
          IN /\ gateway' = stored
             /\ GwCommit(FinalStatusStage(Logged([gwRun EXCEPT !.gw = stored],
                                                 Call("Gateway.Update", "", "ok"))),
                         gwQueue \/ PredicateAccepts(stored))
  /\ UNCHANGED <<gwSecrets, certificates, gwRecords, clock>>

----------------------------------------------------------------------------
(* The cluster-sync annotator on its own                                    *)

MaxApplications == 2

Absent == "-"
AnnotationChoices ==
  [{"owner"} -> {Absent, "team-a"}] \cup
  [{GatewayClusterLabelSelectorAnnotation} -> {Absent, "type=test"}] \cup
  [{SyncAnnotationKey("test_cluster_one"), SyncAnnotationKey("test_cluster_two")}
     -> {Absent, "True", "true"}]
AnnotationKeys ==
  {"owner", GatewayClusterLabelSelectorAnnotation,
   SyncAnnotationKey("test_cluster_one"), SyncAnnotationKey("test_cluster_two")}
\* The annotation maps an object may carry before the annotator runs.
AnnotationMaps ==
  {[k \in {j \in AnnotationKeys : m[j] # Absent} |-> m[k]] :
     m \in {n \in [AnnotationKeys -> {Absent, "team-a", "type=test", "True", "true"}] :
              \A k \in AnnotationKeys : \E c \in AnnotationChoices :
                 k \in DOMAIN c /\ c[k] = n[k]}}
ClusterLists ==
  {<<>>, <<"test_cluster_one">>, <<"test_cluster_two">>,
   <<"test_cluster_one", "test_cluster_two">>,
   <<"test_cluster_one", "test_cluster_one">>}

AnnotatedObject(annotations, clusters) ==
  [object |-> [exists |-> TRUE, annotations |-> annotations],
   original |-> annotations, clusters |-> clusters, applied |-> 0, updates |-> 0]

AnnotatorIdle == annotator = AnnotatedObject(EmptyMap, <<>>)

AnnotatorInit ==
  annotator \in {AnnotatedObject(a, cs) : a \in AnnotationMaps, cs \in ClusterLists}

\* applyClusterSyncerAnnotationsToObject(obj, clusters)
AnnotatorApply ==
  /\ annotator.applied < MaxApplications
  /\ annotator' =
       [annotator EXCEPT
          !.object.annotations = applyClusterSyncerAnnotationsToObject(@, annotator.clusters),
          !.applied = @ + 1]

\* The secret sync of a Gateway pass on the object: r.Update only when the
\* annotated copy differs.
AnnotatorSyncSecret ==
  /\ annotator.applied < MaxApplications
  /\ Len(annotator.clusters) > 0
  /\ LET sync == SecretSync(annotator.object, annotator.clusters)
     IN annotator' =
          [annotator EXCEPT
             !.object = IF sync.update THEN sync.updatedSecret ELSE @,
             !.applied = @ + 1,
             !.updates = IF sync.update THEN @ + 1 ELSE @]

----------------------------------------------------------------------------
(* The Gateway traffic accessor on its own                                  *)

MaxCalls == 2

\* fmt.Sprint(listener.Hostname): Hostname is a *Hostname, so the text is the
\* address the pointer of listener number i holds, not the hostname.
SprintHostname(i) == "0xc00001" \o ToString(i) \o "a0"

\* Gateway.RemoveTLS: the loop variable is a copy of the listener; the copies
\* whose printed hostname is in hosts lose their TLS block, the listeners of
\* the Gateway are not assigned.
RemoveTLSCopies(gw, hosts) ==
  [i \in DOMAIN gw.listeners |->
     IF SprintHostname(i) \in Range(hosts)
     THEN [gw.listeners[i] EXCEPT !.tls = NoTLS]
     ELSE gw.listeners[i]]
RemoveTLS(gw, hosts) ==
  LET copies == RemoveTLSCopies(gw, hosts)
  IN gw

\* Gateway.AddManagedHost: not implemented for Gateways, returns nil.
AddManagedHost(gw, h) == [gw |-> gw, err |-> "nil"]

\* Gateway.GetTLS: one TLSConfig per listener with a TLS block; indexing the
\* first certificate ref of a block without refs panics.
TLSConfig(hosts, secretName) == [Hosts |-> hosts, SecretName |-> secretName]
RECURSIVE GetTLSFrom(_, _, _)
GetTLSFrom(listeners, i, tls) ==
  IF i > Len(listeners) THEN [panic |-> FALSE, tls |-> tls]
  ELSE IF ~listeners[i].tls.set THEN GetTLSFrom(listeners, i + 1, tls)
  ELSE IF Len(listeners[i].tls.certificateRefs) = 0 THEN [panic |-> TRUE, tls |-> <<>>]
  ELSE GetTLSFrom(listeners, i + 1,
                  Append(tls, TLSConfig(<<SprintHostname(i)>>,
                                        listeners[i].tls.certificateRefs[1].Name)))
GetTLS(gw) == GetTLSFrom(gw.listeners, 1, <<>>)

\* The Gateways the accessor is given: one or two listeners, each without a
\* TLS block, with a TLS block of one certificate ref, or with one of none.
AccessorHosts == {"a.example.com", "svc.eu.example.com"}
TLSBlocks ==
  {NoTLS,
   [set |-> TRUE, certificateRefs |-> <<[Name |-> "old-tls", Namespace |-> GatewayNamespace]>>],
   [set |-> TRUE, certificateRefs |-> <<>>]}
AccessorListenerLists ==
  {<<Listener("l1", h, t)>> : h \in AccessorHosts, t \in TLSBlocks} \cup
  {<<Listener("l1", h1, t1), Listener("l2", h2, t2)>> :
     h1 \in AccessorHosts, t1 \in TLSBlocks, h2 \in AccessorHosts, t2 \in TLSBlocks}
\* The arguments of the calls: hosts of listeners, a host of none, and the
\* text a hostname pointer prints as.
HostArguments == AccessorHosts \cup {"other.example.com"}
HostListArguments ==
  {<<>>, <<"a.example.com">>, <<"a.example.com", "svc.eu.example.com">>,
   <<"other.example.com">>, <<SprintHostname(1)>>}
SecretNames == {"new-tls"}

\* What the last call of the accessor was given and what it gave back.
AccessorCall(op, host, hosts, secret, before, after, err, panic, tls) ==
  [op |-> op, host |-> host, hosts |-> hosts, secret |-> secret,
   before |-> before, after |-> after, err |-> err, panic |-> panic, tls |-> tls]
NoAccessorCall(gw) == AccessorCall("none", "", <<>>, "", gw, gw, "nil", FALSE, <<>>)

AccessorOf(gw) == [gw |-> gw, calls |-> 0, last |-> NoAccessorCall(gw)]

AccessorIdle == accessor = AccessorOf(NewGateway("mctc", EmptyMap, <<>>))

AccessorInit ==
  accessor \in {AccessorOf(NewGateway("mctc", EmptyMap, ls)) : ls \in AccessorListenerLists}

AccessorAddTLS(host, secretName) ==
  /\ accessor.calls < MaxCalls
  /\ LET after == AddTLS(accessor.gw, host, secretName)
     IN accessor' =
          [gw |-> after, calls |-> accessor.calls + 1,
           last |-> AccessorCall("AddTLS", host, <<>>, secretName, accessor.gw, after,
                                 "nil", FALSE, <<>>)]

AccessorRemoveTLS(hosts) ==
  /\ accessor.calls < MaxCalls
  /\ LET after == RemoveTLS(accessor.gw, hosts)
     IN accessor' =
          [gw |-> after, calls |-> accessor.calls + 1,
           last |-> AccessorCall("RemoveTLS", "", hosts, "", accessor.gw, after,
                                 "nil", FALSE, <<>>)]

AccessorAddManagedHost(h) ==
  /\ accessor.calls < MaxCalls
  /\ LET out == AddManagedHost(accessor.gw, h)
     IN accessor' =
          [gw |-> out.gw, calls |-> accessor.calls + 1,
           last |-> AccessorCall("AddManagedHost", h, <<>>, "", accessor.gw, out.gw,
                                 out.err, FALSE, <<>>)]

AccessorGetTLS ==
  /\ accessor.calls < MaxCalls
  /\ LET out == GetTLS(accessor.gw)
     IN accessor' =
          [gw |-> accessor.gw, calls |-> accessor.calls + 1,
           last |-> AccessorCall("GetTLS", "", <<>>, "", accessor.gw, accessor.gw,
                                 "nil", out.panic, out.tls)]

----------------------------------------------------------------------------
(* The start of the agent process: main of cmd/agent/main.go               *)

\* The control-plane config secret the manager's client finds: none, or one
\* with a "name" entry ("" when the entry is missing) and a client
\* configuration that is usable or not.
NoConfigSecret == [exists |-> FALSE, name |-> "", usable |-> FALSE]
ConfigSecrets ==
  {NoConfigSecret} \cup
  {[exists |-> TRUE, name |-> n, usable |-> u] : n \in Clusters \cup {""}, u \in BOOLEAN}

\* The calls of main that may fail for a reason of their own.
AgentFaultPoints ==
  {"none", "newManager", "get", "scheme1", "scheme2", "setup", "healthz", "readyz", "start"}

NoReconciler == [registered |-> FALSE, ClusterID |-> ""]
Running == -1

AgentAt(pc, secret, fault, loaded, client, reconciler, started, exitCode) ==
  [pc |-> pc, secret |-> secret, fault |-> fault, loaded |-> loaded, client |-> client,
   reconciler |-> reconciler, started |-> started, exitCode |-> exitCode]

AgentIdle ==
  agent = AgentAt("NewManager", NoConfigSecret, "none", FALSE, FALSE, NoReconciler, FALSE, Running)

AgentInit ==
  agent \in {AgentAt("NewManager", cs, f, FALSE, FALSE, NoReconciler, FALSE, Running) :
               cs \in ConfigSecrets, f \in AgentFaultPoints}

\* os.Exit(1)
Exit1(a) == [a EXCEPT !.pc = "exited", !.exitCode = 1]

\* ctrl.NewManager
AgentNewManager ==
  /\ agent.pc = "NewManager"
  /\ agent' = IF agent.fault = "newManager" THEN Exit1(agent)
              ELSE [agent EXCEPT !.pc = "GetSecret"]

\* mgr.GetClient().Get of the control-plane config secret
AgentLoadSecretContinuing ==
  /\ agent.pc = "GetSecret"
  /\ agent' = [agent EXCEPT !.pc = "ClientFromSecret",
                            !.loaded = agent.secret.exists /\ agent.fault # "get"]
AgentLoadSecret ==
  /\ agent.pc = "GetSecret"
  /\ agent' = IF ~agent.secret.exists \/ agent.fault = "get" THEN Exit1(agent)
              ELSE [agent EXCEPT !.pc = "ClientFromSecret", !.loaded = TRUE]

\* clusterSecret.ClientFromSecret
AgentBuildClient ==
  /\ agent.pc = "ClientFromSecret"
  /\ agent' = IF ~agent.secret.usable THEN Exit1(agent)
              ELSE [agent EXCEPT !.pc = "AddToScheme", !.client = TRUE]

\* kuadrantiov1.AddToScheme and certmanv1.AddToScheme on the control client
AgentAddSchemes ==
  /\ agent.pc = "AddToScheme"
  /\ agent' = IF agent.fault \in {"scheme1", "scheme2"} THEN Exit1(agent)
              ELSE [agent EXCEPT !.pc = "SetupWithManager"]

\* (&ingress.Ingress{..., ClusterID: string(controlConfigSecret.Data["name"])}).SetupWithManager(mgr)
AgentSetupReconciler ==
  /\ agent.pc = "SetupWithManager"
  /\ agent' = IF agent.fault = "setup" THEN Exit1(agent)
              ELSE [agent EXCEPT !.pc = "AddChecks",
                                 !.reconciler = [registered |-> TRUE,
                                                 ClusterID |-> agent.secret.name]]

\* mgr.AddHealthzCheck and mgr.AddReadyzCheck
AgentAddChecks ==
  /\ agent.pc = "AddChecks"
  /\ agent' = IF agent.fault \in {"healthz", "readyz"} THEN Exit1(agent)
              ELSE [agent EXCEPT !.pc = "Start"]

\* mgr.Start: starts the registered reconcilers and blocks; a failure of the
\* manager ends the process, before or after the reconcilers were started.
AgentStart ==
  /\ agent.pc = "Start"
  /\ IF agent.fault = "start"
     THEN \E started \in BOOLEAN :
            agent' = Exit1([agent EXCEPT !.started = started /\ agent.reconciler.registered])
     ELSE agent' = [agent EXCEPT !.pc = "running",
                                 !.started = agent.reconciler.registered]

----------------------------------------------------------------------------
(* WebhookServer.Start: the admission endpoint and its termination         *)

MaxRequests == 2

\* A call of Start: where it is, what it returned, the context it was given,
\* the listener of http.ListenAndServe, the goroutine started for it, the
\* admission requests the listener accepted and those answered so far, and
\* the step of Start that fails for a reason of its own (CreateHandler,
\* InjectLogger), if any.
WebhookAt(pc, result, ctx, server, goroutine, served, fault) ==
  [pc |-> pc, result |-> result, ctx |-> ctx, server |-> server,
   goroutine |-> goroutine, accepted |-> served, served |-> served,
   fault |-> fault]

WebhookIdle == webhook = WebhookAt("CreateHandler", "none", "active", "none", "none", 0, "none")

\* Start is called with a live context (it may be done before Start looks at
\* it: WebhookContextDone), by a caller whose handler or logger may fail.
WebhookInit ==
  webhook \in {WebhookAt("CreateHandler", "none", "active", "none", "none", 0, f) :
                 f \in {"none", "handler", "logger"}}

\* admissioningress.CreateHandler
WebhookCreateHandler ==
  /\ webhook.pc = "CreateHandler"
  /\ webhook' = IF webhook.fault = "handler"
                THEN [webhook EXCEPT !.pc = "returned", !.result = "handlerError"]
                ELSE [webhook EXCEPT !.pc = "InjectLogger"]

\* webhook.InjectLogger
WebhookInjectLogger ==
  /\ webhook.pc = "InjectLogger"
  /\ webhook' = IF webhook.fault = "logger"
                THEN [webhook EXCEPT !.pc = "returned", !.result = "loggerError"]
                ELSE [webhook EXCEPT !.pc = "go"]

\* mux.Handle, httpErr := make(chan error), go func() { ... }()
WebhookGo ==
  /\ webhook.pc = "go"
  /\ webhook' = [webhook EXCEPT !.pc = "select", !.goroutine = "ListenAndServe"]

\* http.ListenAndServe in the goroutine: it binds the port and serves, or
\* returns an error at once; the goroutine then sends the error on httpErr.
WebhookListen ==
  /\ webhook.goroutine = "ListenAndServe"
  /\ webhook.server = "none"
  /\ \/ webhook' = [webhook EXCEPT !.server = "listening"]
     \/ webhook' = [webhook EXCEPT !.server = "failed", !.goroutine = "sending"]

\* The listener fails while serving: ListenAndServe returns the error.
WebhookListenerFails ==
  /\ webhook.server = "listening"
  /\ webhook' = [webhook EXCEPT !.server = "failed", !.goroutine = "sending"]

\* The listener accepts an admission request on /ingress; net/http hands it
\* to a goroutine of its own.
WebhookAccept ==
  /\ webhook.server = "listening"
  /\ webhook.accepted < MaxRequests
  /\ webhook' = [webhook EXCEPT !.accepted = @ + 1]

\* The handler registered on the mux answers an accepted request.
WebhookServe ==
  /\ webhook.served < webhook.accepted
  /\ webhook' = [webhook EXCEPT !.served = @ + 1]

\* The context of Start is cancelled, or its deadline passes.
WebhookContextDone(how) ==
  /\ webhook.ctx = "active"
  /\ webhook' = [webhook EXCEPT !.ctx = how]

\* case err := <-httpErr: the unbuffered send of the goroutine meets the
\* receive of the select.
WebhookSelectError ==
  /\ webhook.pc = "select"
  /\ webhook.goroutine = "sending"
  /\ webhook' = [webhook EXCEPT !.pc = "returned", !.result = "listenError",
                                !.goroutine = "done"]

\* case <-ctx.Done(): nil for context.Canceled, the context's error otherwise.
WebhookSelectDone ==
  /\ webhook.pc = "select"
  /\ webhook.ctx # "active"
  /\ webhook' = [webhook EXCEPT !.pc = "returned",
                                !.result = IF webhook.ctx = "canceled" THEN "nil"
                                           ELSE "deadlineExceeded"]

----------------------------------------------------------------------------
(* Specifications                                                           *)

Init ==
  /\ IngressStart
  /\ envBudget = MaxEnvChanges
  /\ faultBudget = MaxFaults
  /\ GatewayIdle
  /\ AnnotatorIdle
  /\ AccessorIdle
  /\ AgentIdle
  /\ WebhookIdle

\* Users and load balancers make finitely many changes while the agents run,
\* on top of the Ingresses that IngressStart draws.
IngressUser ==
  /\ envBudget > 0
  /\ envBudget' = envBudget - 1
  /\ \E c \in Clusters :
       \/ UserCreate(c, OneHost)
       \/ UserDelete(c)
       \/ \E ts \in {{}, {LBAddress(c)}} : LoadBalancerStatus(c, ts)
  /\ UNCHANGED faultBudget

Issuer == \E h \in Range(OneHost), d \in SecretData : IssueSecret(h, d)

\* A step of the agent of cluster c: the next call of its pass, which may fail.
IngressAgent(c) == \E fail \in BOOLEAN : IngressStep(c, fail)

Next ==
  \/ IngressUser /\ UNCHANGED gatewayVars /\ UNCHANGED standaloneVars
  \/ Issuer /\ UNCHANGED budgetVars /\ UNCHANGED gatewayVars /\ UNCHANGED standaloneVars
  \/ \E c \in Clusters : IngressAgent(c) /\ UNCHANGED budgetVars /\ UNCHANGED gatewayVars /\ UNCHANGED standaloneVars

Spec == Init /\ [][Next]_vars

\* The same system with finitely many failing calls too, every agent going
\* on with its passes and the issuer publishing every secret in the end.
FairUser == IngressUser /\ UNCHANGED gatewayVars /\ UNCHANGED standaloneVars

FairAgent(c) ==
  /\ \/ IngressStep(c, FALSE) /\ UNCHANGED budgetVars
     \/ /\ faultBudget > 0
        /\ faultBudget' = faultBudget - 1
        /\ IngressStep(c, TRUE)
        /\ UNCHANGED envBudget
  /\ UNCHANGED gatewayVars /\ UNCHANGED standaloneVars

FairIssuer == Issuer /\ UNCHANGED budgetVars /\ UNCHANGED gatewayVars /\ UNCHANGED standaloneVars

FairNext ==
  \/ FairUser
  \/ FairIssuer
  \/ \E c \in Clusters : FairAgent(c)

FairSpec ==
  /\ Init
  /\ [][FairNext]_vars
  /\ \A c \in Clusters : WF_vars(FairAgent(c))
  /\ WF_vars(FairIssuer)

\* One agent and an Ingress with two hosts.
TwoHostUser ==
  \/ UserCreate("c1", TwoHosts)
  \/ UserDelete("c1")
  \/ \E ts \in LBStatuses : LoadBalancerStatus("c1", ts)

TwoHostIssuer == \E h \in Range(TwoHosts), d \in SecretData : IssueSecret(h, d)

TwoHostAgent(c) == \E fail \in BOOLEAN : IngressStep(c, fail)

TwoHostNext ==
  \/ TwoHostUser /\ UNCHANGED budgetVars /\ UNCHANGED gatewayVars /\ UNCHANGED standaloneVars
  \/ TwoHostIssuer /\ UNCHANGED budgetVars /\ UNCHANGED gatewayVars /\ UNCHANGED standaloneVars
  \/ TwoHostAgent("c1") /\ UNCHANGED budgetVars /\ UNCHANGED gatewayVars /\ UNCHANGED standaloneVars

\* The agent of the two-host Ingress starts before the Ingress is created.
TwoHostInit ==
  /\ IngressInit
  /\ envBudget = MaxEnvChanges
  /\ faultBudget = MaxFaults
  /\ GatewayIdle
  /\ AnnotatorIdle
  /\ AccessorIdle
  /\ AgentIdle
  /\ WebhookIdle

TwoHostSpec == TwoHostInit /\ [][TwoHostNext]_vars

GatewaySpecInit ==
  /\ IngressInit
  /\ envBudget = MaxEnvChanges
  /\ faultBudget = MaxFaults
  /\ GatewayInit
  /\ AnnotatorIdle
  /\ AccessorIdle
  /\ AgentIdle
  /\ WebhookIdle

GatewayUser ==
  \/ \E cl \in ClassNames : GwUserSetClass(cl)
  \/ \E held \in BOOLEAN : GwUserDelete(held)

CertManager == \E h \in GatewayHosts : GwIssueSecret(h)

GatewayController ==
  \E fail \in BOOLEAN :
    \/ GwGet(fail)
    \/ GwGetClass(fail)
    \/ \E first \in BOOLEAN : GwStatusUpdate(first, fail)
    \/ GwEnsureCertificate(fail)
    \/ GwGetCertificateSecret(fail)
    \/ GwSecretUpdate(fail)
    \/ GwRegisterHost(fail)
    \/ GwAddEndPoints(fail)
    \/ GwUpdate(fail)

GatewayNext ==
  \/ GatewayUser /\ UNCHANGED ingressVars /\ UNCHANGED budgetVars /\ UNCHANGED standaloneVars
  \/ CertManager /\ UNCHANGED ingressVars /\ UNCHANGED budgetVars /\ UNCHANGED standaloneVars
  \/ GatewayController /\ UNCHANGED ingressVars /\ UNCHANGED budgetVars /\ UNCHANGED standaloneVars

GatewaySpec == GatewaySpecInit /\ [][GatewayNext]_vars

AnnotatorSpecInit ==
  /\ IngressInit
  /\ envBudget = MaxEnvChanges
  /\ faultBudget = MaxFaults
  /\ GatewayIdle
  /\ AnnotatorInit
  /\ AccessorIdle
  /\ AgentIdle
  /\ WebhookIdle

AnnotatorNext ==
  \/ /\ AnnotatorApply
     /\ UNCHANGED ingressVars /\ UNCHANGED budgetVars /\ UNCHANGED gatewayVars
     /\ UNCHANGED accessorVars /\ UNCHANGED agentVars /\ UNCHANGED webhookVars
  \/ /\ AnnotatorSyncSecret
     /\ UNCHANGED ingressVars /\ UNCHANGED budgetVars /\ UNCHANGED gatewayVars
     /\ UNCHANGED accessorVars /\ UNCHANGED agentVars /\ UNCHANGED webhookVars

AnnotatorSpec == AnnotatorSpecInit /\ [][AnnotatorNext]_vars

AccessorSpecInit ==
  /\ IngressInit
  /\ envBudget = MaxEnvChanges
  /\ faultBudget = MaxFaults
  /\ GatewayIdle
  /\ AnnotatorIdle
  /\ AccessorInit
  /\ AgentIdle
  /\ WebhookIdle

AccessorNext ==
  \/ /\ \E h \in HostArguments, n \in SecretNames : AccessorAddTLS(h, n)
     /\ UNCHANGED ingressVars /\ UNCHANGED budgetVars /\ UNCHANGED gatewayVars
     /\ UNCHANGED annotatorVars /\ UNCHANGED agentVars /\ UNCHANGED webhookVars
  \/ /\ \E hs \in HostListArguments : AccessorRemoveTLS(hs)
     /\ UNCHANGED ingressVars /\ UNCHANGED budgetVars /\ UNCHANGED gatewayVars
     /\ UNCHANGED annotatorVars /\ UNCHANGED agentVars /\ UNCHANGED webhookVars
  \/ /\ \E h \in HostArguments : AccessorAddManagedHost(h)
     /\ UNCHANGED ingressVars /\ UNCHANGED budgetVars /\ UNCHANGED gatewayVars
     /\ UNCHANGED annotatorVars /\ UNCHANGED agentVars /\ UNCHANGED webhookVars
  \/ /\ AccessorGetTLS
     /\ UNCHANGED ingressVars /\ UNCHANGED budgetVars /\ UNCHANGED gatewayVars
     /\ UNCHANGED annotatorVars /\ UNCHANGED agentVars /\ UNCHANGED webhookVars

AccessorSpec == AccessorSpecInit /\ [][AccessorNext]_vars

AgentSpecInit ==
  /\ IngressInit
  /\ envBudget = MaxEnvChanges
  /\ faultBudget = MaxFaults
  /\ GatewayIdle
  /\ AnnotatorIdle
  /\ AccessorIdle
  /\ AgentInit
  /\ WebhookIdle

AgentNext ==
  \/ /\ AgentNewManager
     /\ UNCHANGED ingressVars /\ UNCHANGED budgetVars /\ UNCHANGED gatewayVars
     /\ UNCHANGED annotatorVars /\ UNCHANGED accessorVars /\ UNCHANGED webhookVars
  \/ /\ AgentLoadSecret
     /\ UNCHANGED ingressVars /\ UNCHANGED budgetVars /\ UNCHANGED gatewayVars
     /\ UNCHANGED annotatorVars /\ UNCHANGED accessorVars /\ UNCHANGED webhookVars
  \/ /\ AgentBuildClient
     /\ UNCHANGED ingressVars /\ UNCHANGED budgetVars /\ UNCHANGED gatewayVars
     /\ UNCHANGED annotatorVars /\ UNCHANGED accessorVars /\ UNCHANGED webhookVars
  \/ /\ AgentAddSchemes
     /\ UNCHANGED ingressVars /\ UNCHANGED budgetVars /\ UNCHANGED gatewayVars
     /\ UNCHANGED annotatorVars /\ UNCHANGED accessorVars /\ UNCHANGED webhookVars
  \/ /\ AgentSetupReconciler
     /\ UNCHANGED ingressVars /\ UNCHANGED budgetVars /\ UNCHANGED gatewayVars
     /\ UNCHANGED annotatorVars /\ UNCHANGED accessorVars /\ UNCHANGED webhookVars
  \/ /\ AgentAddChecks
     /\ UNCHANGED ingressVars /\ UNCHANGED budgetVars /\ UNCHANGED gatewayVars
     /\ UNCHANGED annotatorVars /\ UNCHANGED accessorVars /\ UNCHANGED webhookVars
  \/ /\ AgentStart
     /\ UNCHANGED ingressVars /\ UNCHANGED budgetVars /\ UNCHANGED gatewayVars
     /\ UNCHANGED annotatorVars /\ UNCHANGED accessorVars /\ UNCHANGED webhookVars

AgentSpec == AgentSpecInit /\ [][AgentNext]_vars

WebhookSpecInit ==
  /\ IngressInit
  /\ envBudget = MaxEnvChanges
  /\ faultBudget = MaxFaults
  /\ GatewayIdle
  /\ AnnotatorIdle
  /\ AccessorIdle
  /\ AgentIdle
  /\ WebhookInit

WebhookNext ==
  \/ /\ WebhookCreateHandler
     /\ UNCHANGED ingressVars /\ UNCHANGED budgetVars /\ UNCHANGED gatewayVars
     /\ UNCHANGED annotatorVars /\ UNCHANGED accessorVars /\ UNCHANGED agentVars
  \/ /\ WebhookInjectLogger
     /\ UNCHANGED ingressVars /\ UNCHANGED budgetVars /\ UNCHANGED gatewayVars
     /\ UNCHANGED annotatorVars /\ UNCHANGED accessorVars /\ UNCHANGED agentVars
  \/ /\ WebhookGo
     /\ UNCHANGED ingressVars /\ UNCHANGED budgetVars /\ UNCHANGED gatewayVars
     /\ UNCHANGED annotatorVars /\ UNCHANGED accessorVars /\ UNCHANGED agentVars
  \/ /\ WebhookListen
     /\ UNCHANGED ingressVars /\ UNCHANGED budgetVars /\ UNCHANGED gatewayVars
     /\ UNCHANGED annotatorVars /\ UNCHANGED accessorVars /\ UNCHANGED agentVars
  \/ /\ WebhookListenerFails
     /\ UNCHANGED ingressVars /\ UNCHANGED budgetVars /\ UNCHANGED gatewayVars
     /\ UNCHANGED annotatorVars /\ UNCHANGED accessorVars /\ UNCHANGED agentVars
  \/ /\ WebhookAccept
     /\ UNCHANGED ingressVars /\ UNCHANGED budgetVars /\ UNCHANGED gatewayVars
     /\ UNCHANGED annotatorVars /\ UNCHANGED accessorVars /\ UNCHANGED agentVars
  \/ /\ WebhookServe
     /\ UNCHANGED ingressVars /\ UNCHANGED budgetVars /\ UNCHANGED gatewayVars
     /\ UNCHANGED annotatorVars /\ UNCHANGED accessorVars /\ UNCHANGED agentVars
  \/ /\ \E how \in {"canceled", "deadlineExceeded"} : WebhookContextDone(how)
     /\ UNCHANGED ingressVars /\ UNCHANGED budgetVars /\ UNCHANGED gatewayVars
     /\ UNCHANGED annotatorVars /\ UNCHANGED accessorVars /\ UNCHANGED agentVars
  \/ /\ WebhookSelectError
     /\ UNCHANGED ingressVars /\ UNCHANGED budgetVars /\ UNCHANGED gatewayVars
     /\ UNCHANGED annotatorVars /\ UNCHANGED accessorVars /\ UNCHANGED agentVars
  \/ /\ WebhookSelectDone
     /\ UNCHANGED ingressVars /\ UNCHANGED budgetVars /\ UNCHANGED gatewayVars
     /\ UNCHANGED annotatorVars /\ UNCHANGED accessorVars /\ UNCHANGED agentVars

WebhookSpec == WebhookSpecInit /\ [][WebhookNext]_vars

----------------------------------------------------------------------------
(* Claims about the Ingress agents                                         *)

\* The endpoints of the record of host h that carry set-identifier c.
EndpointsOf(c, h) == {e \in dnsRecord[h] : e.setID = c}

\* What the live, non-deleting Ingresses currently report for host h.
LiveContribution(c, h) ==
  IF ingress[c].exists /\ ~ingress[c].deletionTimestamp /\ h \in Range(ingress[c].hosts)
  THEN {Endpoint(c, t) : t \in ingress[c].lbStatus}
  ELSE {}
LiveUnion(h) == UNION {LiveContribution(c, h) : c \in Clusters}

\* The endpoints of record for host h that carry set-identifier c.
EndpointsIn(record, c, h) == {e \in record[h] : e.setID = c}

\* The step ends a pass of the agent of cluster c.
EndsPass(c) ==
  /\ ingressRun'[c].pc = "idle"
  /\ ingressPass'.cluster = c
  /\ ingressRun[c].pc # "idle" \/ ingressPass' # ingressPass

\* The pass of cluster c in flight, or the one the step begins at r.Get.
PassOf(c) ==
  IF ingressRun[c].pc # "idle" THEN ingressRun[c]
  ELSE [NoIngressRun EXCEPT !.current = ingress[c], !.target = ingress[c],
                            !.before = [record |-> dnsRecord, local |-> workloadSecrets[c]]]

\* C1 (finalizer safety): whenever the hub record holds endpoints with
\* set-identifier c and no pass of the agent of cluster c is in flight, the
\* stored Ingress of cluster c carries the finalizer
\* kuadrant.io/traffic-management.
C1_FinalizerSafety ==
  \A c \in Clusters :
    (ingressRun[c].pc = "idle" /\ \E h \in AllHosts : EndpointsOf(c, h) # {})
      => (ingress[c].exists /\ TrafficFinalizer \in ingress[c].finalizers)

\* C2 (union property): once the users and the load balancers stop changing
\* things and the failing calls stop, the agents bring the record of every
\* host to the union of what the live, non-deleting Ingresses report, and it
\* stays there.
C2_UnionAfterQuiescence ==
  <>[](\A h \in AllHosts : dnsRecord[h] = LiveUnion(h))

\* C3 (non-interference): a pass of the agent of cluster c calls PatchTargets
\* with clusterID c only, and no step that changes the endpoints with
\* set-identifier o or the stored Ingress of cluster o is a step of the agent
\* of another cluster.
C3_NonInterference ==
  [][/\ \A i \in DOMAIN ingressPass'.patches :
          ingressPass'.patches[i].clusterID = ingressPass'.cluster
     /\ \A o \in Clusters :
          (\/ ingress'[o] # ingress[o]
           \/ \E h \in AllHosts : EndpointsOf(o, h)' # EndpointsOf(o, h))
            => \A c \in Clusters \ {o} : ~IngressAgent(c)]_vars

\* Both clusters had published their endpoints of h1 when the agent of c2
\* began a pass over its deleting Ingress; its PatchTargets call with
\* remove=true has withdrawn the endpoint of c2 and the pass is about to store
\* the Ingress without the finalizer: the endpoint of c1 is still in the
\* record and the Ingress of c1 still carries its finalizer.
C3_Witness ==
  /\ ingressRun["c2"].pc = "update"
  /\ ingressRun["c2"].current.deletionTimestamp
  /\ ingressRun["c2"].before.record["h1"] =
       {Endpoint("c1", "10.0.0.1"), Endpoint("c2", "10.0.0.2")}
  /\ ingressRun["c2"].patches = <<PatchCall({}, OneHost, "c2", TRUE)>>
  /\ TrafficFinalizer \notin ingressRun["c2"].target.finalizers
  /\ dnsRecord["h1"] = {Endpoint("c1", "10.0.0.1")}
  /\ ingress["c1"].exists
  /\ TrafficFinalizer \in ingress["c1"].finalizers

----------------------------------------------------------------------------
(* Claims about the Gateway reconciler                                      *)

\* The status writes of a pass that the API server stored, in order.
StatusWrites(log) ==
  SelectSeq(log.calls, LAMBDA c : c.op = "Status.Update" /\ c.result = "ok")
Called(log, ops) == \E i \in DOMAIN log.calls : log.calls[i].op \in ops
CalledWith(log, op, host, result) ==
  \E i \in DOMAIN log.calls :
    /\ log.calls[i].op = op
    /\ log.calls[i].host = host
    /\ log.calls[i].result = result
Failed(log) == \E i \in DOMAIN log.calls : log.calls[i].result = "error"
Shows(c, type, status, reason, message) ==
  /\ c.Type = type
  /\ c.Status = status
  /\ c.Reason = reason
  /\ c.Message = message
IsAccepted(c) ==
  Shows(c, "Accepted", "True", "Accepted", "Handled by kuadrant.io/mctc-gw-controller")
IsNoClusters(c) == Shows(c, "Programmed", "False", "Pending", "No clusters match selection")
IsWaiting(c) == Shows(c, "Programmed", "Unknown", "Pending", "Waiting for controller")
Live(gw) == gw.exists /\ ~gw.deletionTimestamp

\* The step ends a pass of the Gateway reconciler.
GwPassEnds == gwRun'.pc = "idle" /\ (gwRun.pc # "idle" \/ clock' # clock)

\* The hub as it was when the pass that is in flight, or that the step
\* begins, fetched the Gateway.
Before == IF gwRun.pc = "idle" THEN HubState ELSE gwRun.before

\* The stored Gateway is as the pass fetched it in all that a pass writes:
\* conditions, listeners and annotations (class, deletion and generation are
\* what users write).
GatewayUnwritten ==
  /\ gateway'.conditions = Before.gateway.conditions
  /\ gateway'.listeners = Before.gateway.listeners
  /\ gateway'.annotations = Before.gateway.annotations

\* The secret of host h is as it was when the pass began, or was issued by
\* cert-manager since.
SecretUnwritten(h) ==
  \/ gwSecrets'[h] = Before.secrets[h]
  \/ ~Before.secrets[h].exists /\ gwSecrets'[h] = NewGwSecret

\* C4 (empty cluster selection): a pass over a Gateway whose selectClusters
\* result is empty publishes no conditions but Accepted=True and
\* Programmed=False (Pending, "No clusters match selection"), calls none of
\* EnsureCertificate, GetCertificateSecret, RegisterHost, AddEndPoints, and
\* updates no Secret and neither the spec nor the annotations of the Gateway.
C4_EmptySelection ==
  [][(GwPassEnds /\ selectClusters(Before.gateway) = <<>>) =>
       /\ \A i \in DOMAIN gwPass'.calls :
            /\ gwPass'.calls[i].op = "Status.Update"
            /\ Len(gwPass'.calls[i].conditions) = 2
            /\ IsAccepted(gwPass'.calls[i].conditions[1])
            /\ IsNoClusters(gwPass'.calls[i].conditions[2])
       /\ \A h \in GatewayHosts : SecretUnwritten(h)
       /\ certificates' = Before.certs
       /\ gwRecords' = Before.records
       /\ gateway'.listeners = Before.gateway.listeners
       /\ gateway'.annotations = Before.gateway.annotations]_vars

\* A pass over a Gateway with a selector that matches no cluster has stored
\* the two conditions and nothing else.
C4_Witness ==
  /\ gwPass.ran /\ gwPass.selected /\ gwPass.clusters = <<>>
  /\ GatewayClusterLabelSelectorAnnotation \in DOMAIN gwPass.previous.annotations
  /\ Len(StatusWrites(gwPass)) = 1
  /\ Len(gateway.conditions) = 2
  /\ IsAccepted(gateway.conditions[1])
  /\ IsNoClusters(gateway.conditions[2])
  /\ certificates = {}
  /\ ~gwPass.err

\* C5 (empty selection stability): a pass over an unchanged, live Gateway with
\* empty cluster selection whose stored conditions are already Accepted=True
\* and Programmed=False (Pending) of its generation writes nothing.
C5_EmptySelectionFixedPoint ==
  [][(/\ GwPassEnds
      /\ Live(Before.gateway)
      /\ Before.gateway.className \in GatewayClasses
      /\ selectClusters(Before.gateway) = <<>>
      /\ Len(Before.gateway.conditions) = 2
      /\ IsAccepted(Before.gateway.conditions[1])
      /\ IsNoClusters(Before.gateway.conditions[2])
      /\ Before.gateway.conditions[1].ObservedGeneration = Before.gateway.generation
      /\ Before.gateway.conditions[2].ObservedGeneration = Before.gateway.generation) =>
       GatewayUnwritten]_vars

\* C6 (class filter): a pass over a Gateway whose class is not a supported one
\* writes nothing: the stored Gateway with its status, the Secrets, the
\* Certificates and the DNS records stay as they are.
C6_ClassFilter ==
  [][(GwPassEnds /\ Before.gateway.className \notin SupportedClasses) =>
       /\ GatewayUnwritten
       /\ \A h \in GatewayHosts : SecretUnwritten(h)
       /\ certificates' = Before.certs
       /\ gwRecords' = Before.records]_vars

\* C7 (pending certificates): a pass in which GetCertificateSecret answers
\* NotFound for a host leaves the stored conditions Accepted=True and
\* Programmed=Unknown (Pending, "Waiting for controller"), returns a requeue
\* after 10 seconds and no error, calls neither RegisterHost nor AddEndPoints
\* and updates neither the spec nor the annotations of the Gateway.
C7_PendingCertificates ==
  [][(/\ GwPassEnds
      /\ \E h \in GatewayHosts :
           CalledWith(gwPass', "GetCertificateSecret", h, "NotFound")) =>
       /\ Len(gateway'.conditions) = 2
       /\ IsAccepted(gateway'.conditions[1])
       /\ IsWaiting(gateway'.conditions[2])
       /\ gwPass'.res = [Requeue |-> TRUE, RequeueAfter |-> 10]
       /\ ~gwPass'.err
       /\ ~Called(gwPass', {"RegisterHost", "AddEndPoints", "Gateway.Update"})
       /\ gwRecords' = Before.records
       /\ gateway'.listeners = Before.gateway.listeners
       /\ gateway'.annotations = Before.gateway.annotations]_vars

\* The secret of the first host of a two-host Gateway is there, the one of the
\* second is not: the pass stopped at the second host.
C7_Witness ==
  /\ gwPass.ran /\ gwPass.clusters = <<"test_cluster_one">>
  /\ CalledWith(gwPass, "GetCertificateSecret", "svc.eu.example.com", "ok")
  /\ CalledWith(gwPass, "GetCertificateSecret", "shop.custom.org", "NotFound")
  /\ gwPass.res = RequeueAfter10s
  /\ IsWaiting(gateway.conditions[2])
  /\ gwQueue

\* The status writes of a pass that stored Programmed=True.
WroteTrue(log) ==
  \E i \in DOMAIN StatusWrites(log) :
    StatusWrites(log)[i].conditions[2].Status = "True"

\* C8 (Programmed=True only when DNS and TLS are applied): a pass that stores
\* Programmed=True stores it with reason Programmed and the message listing
\* the selected clusters, and has found the secret of every host, registered
\* every host, added the endpoints and updated the Gateway, all in that pass;
\* a pass in which a call fails stores no Programmed=True.
C8_ProgrammedOnlyWhenApplied ==
  [][(GwPassEnds) =>
       /\ WroteTrue(gwPass') =>
            /\ \A i \in DOMAIN StatusWrites(gwPass') :
                 StatusWrites(gwPass')[i].conditions[2].Status = "True" =>
                   Shows(StatusWrites(gwPass')[i].conditions[2], "Programmed", "True",
                         "Programmed",
                         "Gateway configured in data plane cluster(s) - [test_cluster_one]")
            /\ gwPass'.clusters = <<"test_cluster_one">>
            /\ \A i \in DOMAIN Before.gateway.listeners :
                 /\ CalledWith(gwPass', "GetCertificateSecret", Before.gateway.listeners[i].hostname, "ok")
                 /\ CalledWith(gwPass', "RegisterHost", Before.gateway.listeners[i].hostname, "ok")
                 /\ gwSecrets'[Before.gateway.listeners[i].hostname].exists
                 /\ gwRecords'[Before.gateway.listeners[i].hostname].exists
                 /\ gateway'.listeners[i].tls.set
            /\ CalledWith(gwPass', "AddEndPoints", "", "ok")
            /\ CalledWith(gwPass', "Gateway.Update", "", "ok")
            /\ SyncAnnotationKey("test_cluster_one") \in DOMAIN gateway'.annotations
            /\ ~gwPass'.err
       /\ Failed(gwPass') => ~WroteTrue(gwPass')]_vars

\* A two-host Gateway was programmed: both secrets found, both hosts
\* registered with endpoints, TLS and the sync annotation stored.
C8_Witness ==
  /\ gwPass.ran /\ WroteTrue(gwPass)
  /\ Len(gwPass.previous.listeners) = 2
  /\ gateway.conditions[2].Status = "True"
  /\ \A h \in {"svc.eu.example.com", "shop.custom.org"} :
       /\ CalledWith(gwPass, "RegisterHost", h, "ok")
       /\ gwRecords[h].endpoints = {"172.32.200.0"}
  /\ \A i \in DOMAIN gateway.listeners : gateway.listeners[i].tls.set
  /\ gateway.annotations[SyncAnnotationKey("test_cluster_one")] = "True"

\* C9 (condition monotonicity): a pass over a live Gateway whose stored
\* Programmed condition is True for its current generation, in which every
\* secret is found and no call fails, stores no Programmed=Unknown and no
\* Programmed=False.
C9_ProgrammedMonotonic ==
  [][(/\ GwPassEnds
      /\ Live(Before.gateway)
      /\ Len(Before.gateway.conditions) = 2
      /\ Before.gateway.conditions[2].Status = "True"
      /\ Before.gateway.conditions[2].ObservedGeneration = Before.gateway.generation
      /\ gateway'.generation = Before.gateway.generation
      /\ gwPass'.clusters # <<>>
      /\ ~Failed(gwPass')
      /\ \A h \in GatewayHosts :
           ~CalledWith(gwPass', "GetCertificateSecret", h, "NotFound")) =>
       \A i \in DOMAIN StatusWrites(gwPass') :
         StatusWrites(gwPass')[i].conditions[2].Status \notin {"Unknown", "False"}]_vars

\* C10 (LastTransitionTime stability): the first status write of a pass keeps
\* the stored LastTransitionTime of every condition whose Status and Reason it
\* does not change.
C10_LastTransitionTimeStable ==
  [][(/\ GwPassEnds
      /\ Len(Before.gateway.conditions) = 2
      /\ Len(StatusWrites(gwPass')) > 0) =>
       \A i \in 1..2 :
         (/\ StatusWrites(gwPass')[1].conditions[i].Type = Before.gateway.conditions[i].Type
          /\ StatusWrites(gwPass')[1].conditions[i].Status = Before.gateway.conditions[i].Status
          /\ StatusWrites(gwPass')[1].conditions[i].Reason = Before.gateway.conditions[i].Reason) =>
           StatusWrites(gwPass')[1].conditions[i].LastTransitionTime
             = Before.gateway.conditions[i].LastTransitionTime]_vars

\* The calls of a pass to op for host.
CallsOf(log, op, host) ==
  {i \in DOMAIN log.calls : log.calls[i].op = op /\ log.calls[i].host = host}

\* C11 (per-host certificate uniqueness): a pass asks EnsureCertificate at
\* most once for a hostname, however many listeners carry it; the Certificate
\* of a host is created only when there is none, is there after every
\* EnsureCertificate that did not fail, and is never removed.
C11_CertificatePerHost ==
  [][(GwPassEnds) =>
       /\ \A h \in GatewayHosts :
            /\ Cardinality(CallsOf(gwPass', "EnsureCertificate", h)) <= 1
            /\ CalledWith(gwPass', "EnsureCertificate", h, "ok") =>
                 h \notin Before.certs /\ h \in certificates'
            /\ CalledWith(gwPass', "EnsureCertificate", h, "AlreadyExists") =>
                 h \in Before.certs /\ h \in certificates'
            /\ h \in certificates' \ Before.certs =>
                 /\ CalledWith(gwPass', "EnsureCertificate", h, "ok")
                 /\ \E i \in DOMAIN Before.gateway.listeners : Before.gateway.listeners[i].hostname = h
       /\ Before.certs \subseteq certificates']_vars

\* A Gateway with two listeners of one hostname was programmed in a pass that
\* asked for the certificate of the host once and found it there already.
C11_Witness ==
  /\ gwPass.ran /\ WroteTrue(gwPass)
  /\ Len(gwPass.previous.listeners) = 2
  /\ \A i \in 1..2 : gwPass.previous.listeners[i].hostname = "a.example.com"
  /\ Cardinality(CallsOf(gwPass, "EnsureCertificate", "a.example.com")) = 1
  /\ CalledWith(gwPass, "EnsureCertificate", "a.example.com", "AlreadyExists")
  /\ certificates = {"a.example.com"}

\* The labels of the domain names of the hosts and of the zone roots.
DomainLabels(name) ==
  CASE name = "a.example.com" -> <<"a", "example", "com">>
    [] name = "svc.eu.example.com" -> <<"svc", "eu", "example", "com">>
    [] name = "shop.custom.org" -> <<"shop", "custom", "org">>
    [] name = "example.com" -> <<"example", "com">>
    [] name = "eu.example.com" -> <<"eu", "example", "com">>
    [] OTHER -> <<>>
IsSuffix(s, t) ==
  /\ Len(s) > 0
  /\ Len(s) <= Len(t)
  /\ \A i \in 1..Len(s) : s[i] = t[Len(t) - Len(s) + i]
\* The managed zones whose root domain is a suffix of host, and the longest
\* of them.
MatchingZones(zones, host) ==
  {i \in DOMAIN zones : IsSuffix(DomainLabels(zones[i].DNSZone), DomainLabels(host))}
LongestMatchingZones(zones, host) ==
  {i \in MatchingZones(zones, host) :
     \A j \in MatchingZones(zones, host) :
       Len(DomainLabels(zones[j].DNSZone)) <= Len(DomainLabels(zones[i].DNSZone))}
ResolvedZones(zones, host) ==
  IF \E i \in LongestMatchingZones(zones, host) : zones[i].Default
  THEN {zones[i].DNSZone : i \in {j \in LongestMatchingZones(zones, host) : zones[j].Default}}
  ELSE {zones[i].DNSZone : i \in LongestMatchingZones(zones, host)}
HostsOf(gw) == {gw.listeners[i].hostname : i \in DOMAIN gw.listeners}

\* C12 (hosts outside every managed zone): a pass calls RegisterHost for no
\* host of the Gateway that matches no managed zone and creates no DNS record
\* for it, while it still asks for the certificate and the secret of the host
\* when it gets as far as the DNS part.
C12_UnmanagedHostsSkipDNS ==
  [][(GwPassEnds) =>
       \A h \in HostsOf(Before.gateway) :
         MatchingZones(ManagedZones, h) = {} =>
           /\ ~Called(gwPass', {"AddEndPoints"})
                \/ /\ Cardinality(CallsOf(gwPass', "EnsureCertificate", h)) = 1
                   /\ CalledWith(gwPass', "GetCertificateSecret", h, "ok")
           /\ CallsOf(gwPass', "RegisterHost", h) = {}
           /\ gwRecords'[h] = Before.records[h]]_vars

\* C13 (zone resolution by longest suffix): the zone a pass hands to
\* RegisterHost for a host that matches managed zones is the one with the
\* longest root domain among them, a default zone winning a tie.
C13_LongestSuffixZone ==
  [][(GwPassEnds) =>
       \A i \in DOMAIN gwPass'.calls :
         (/\ gwPass'.calls[i].op = "RegisterHost"
          /\ MatchingZones(ManagedZones, gwPass'.calls[i].host) # {}) =>
           gwPass'.calls[i].zone \in ResolvedZones(ManagedZones, gwPass'.calls[i].host)]_vars

\* The routes attached to the listener of host in all gateway statuses.
RECURSIVE SumAttachedRoutes(_)
SumAttachedRoutes(listenerStatuses) ==
  IF Len(listenerStatuses) = 0 THEN 0
  ELSE Head(listenerStatuses).AttachedRoutes + SumAttachedRoutes(Tail(listenerStatuses))
AttachedRoutes(gw, host) ==
  SumAttachedRoutes(GetListenerStatusesByListenerName(gw, GetListenerNameByHost(gw, host)))

\* C14 (attached-routes gating): a pass calls RegisterHost for no host whose
\* listener has no attached route in any gateway status and leaves the DNS
\* record of such a host as it is; when no host of the Gateway has an attached
\* route the pass does not store Programmed=True.
C14_AttachedRoutesGating ==
  [][(GwPassEnds) =>
       /\ \A h \in HostsOf(Before.gateway) :
            AttachedRoutes(Before.gateway, h) = 0 =>
              /\ CallsOf(gwPass', "RegisterHost", h) = {}
              /\ gwRecords'[h] = Before.records[h]
       /\ (\A h \in HostsOf(Before.gateway) : AttachedRoutes(Before.gateway, h) = 0) =>
            ~WroteTrue(gwPass')]_vars

----------------------------------------------------------------------------
(* Claims about the cluster-sync annotator                                  *)

SyncKeys(clusters) == {SyncAnnotationKey(c) : c \in Range(clusters)}

\* C15 (sync annotation form): after the annotator ran on an object, the
\* object carries for every cluster c of the list the annotation
\* clustersync.kuadrant.io/c with the value "true".
C15_SyncAnnotationForm ==
  annotator.applied > 0 =>
    \A c \in Range(annotator.clusters) :
      /\ (ClusterSyncerAnnotation \o "/" \o c) \in DOMAIN annotator.object.annotations
      /\ annotator.object.annotations[ClusterSyncerAnnotation \o "/" \o c] = "true"

\* C16 (annotation frame): a run of the annotator removes no annotation, adds
\* none but the sync keys of its clusters, and changes the value of no
\* annotation but those; so every annotation of the original object that is
\* not a sync key of the clusters is still there with its value.
C16_AnnotationFrame ==
  /\ [][\A k \in DOMAIN annotator.object.annotations :
          /\ k \in DOMAIN annotator'.object.annotations
          /\ k \notin SyncKeys(annotator.clusters) =>
               annotator'.object.annotations[k] = annotator.object.annotations[k]]_vars
  /\ [](/\ DOMAIN annotator.object.annotations \subseteq
             DOMAIN annotator.original \cup SyncKeys(annotator.clusters)
        /\ \A k \in DOMAIN annotator.original \ SyncKeys(annotator.clusters) :
             /\ k \in DOMAIN annotator.object.annotations
             /\ annotator.object.annotations[k] = annotator.original[k])

\* The annotator ran on an object that carried an owner annotation, the
\* selector and the sync annotation of another cluster: all three are kept and
\* the sync annotation of the selected cluster is added.
C16_Witness ==
  /\ annotator.applied > 0
  /\ annotator.clusters = <<"test_cluster_one">>
  /\ annotator.original =
       [k \in {"owner", GatewayClusterLabelSelectorAnnotation,
               SyncAnnotationKey("test_cluster_two")} |->
          IF k = "owner" THEN "team-a"
          ELSE IF k = GatewayClusterLabelSelectorAnnotation THEN "type=test"
          ELSE "true"]
  /\ DOMAIN annotator.object.annotations = AnnotationKeys
  /\ annotator.object.annotations["owner"] = "team-a"
  /\ annotator.object.annotations[SyncAnnotationKey("test_cluster_two")] = "true"
  /\ annotator.object.annotations[SyncAnnotationKey("test_cluster_one")] = "True"

\* C17 (idempotent sync annotations): a second run of the annotator with the
\* same clusters changes nothing; the secret sync writes the Secret exactly
\* when the annotated copy differs from it, so not when the Secret carries the
\* sync annotations of all clusters already and not a second time.
C17_IdempotentSync ==
  [][(annotator'.applied # annotator.applied) =>
       /\ annotator.applied > 0 => /\ annotator'.object = annotator.object
                                  /\ annotator'.updates = annotator.updates
       /\ annotator'.updates # annotator.updates =>
            /\ annotator'.object # annotator.object
            /\ annotator'.updates = annotator.updates + 1
       /\ (\A k \in SyncKeys(annotator.clusters) :
             /\ k \in DOMAIN annotator.object.annotations
             /\ annotator.object.annotations[k] = "True") =>
            /\ annotator'.object = annotator.object
            /\ annotator'.updates = annotator.updates]_vars

\* The secret of a host was synced twice for two clusters: written the first
\* time, left alone the second.
C17_Witness ==
  /\ annotator.applied = 2
  /\ annotator.updates = 1
  /\ annotator.clusters = <<"test_cluster_one", "test_cluster_two">>
  /\ annotator.original # annotator.object.annotations
  /\ \A k \in SyncKeys(annotator.clusters) : annotator.object.annotations[k] = "True"

----------------------------------------------------------------------------
(* More claims about the Gateway reconciler                                 *)

\* The Gateway carries the TLS reference of every listener and the sync
\* annotation of every selected cluster, as a pass computes them.
CarriesTLSAndSync(gw) ==
  /\ \A i \in DOMAIN gw.listeners :
       gw.listeners[i].tls =
         [set |-> TRUE,
          certificateRefs |-> <<[Name |-> gw.listeners[i].hostname,
                                 Namespace |-> gw.namespace]>>]
  /\ \A k \in SyncKeys(selectClusters(gw)) :
       k \in DOMAIN gw.annotations /\ gw.annotations[k] = "True"

\* C18 (no Gateway write unless something changed): a pass over a Gateway
\* that carries the TLS references and the sync annotations already issues no
\* Update of the Gateway object.
C18_NoUpdateWithoutChange ==
  [][(GwPassEnds /\ Live(Before.gateway) /\ CarriesTLSAndSync(Before.gateway)) =>
       ~Called(gwPass', {"Gateway.Update"})]_vars

----------------------------------------------------------------------------
(* More claims about the Ingress agents                                     *)

\* C19 (withdrawal before finalizer removal): a pass over an Ingress with a
\* deletion timestamp fetches and copies no secret and issues no patch but
\* PatchTargets([], hosts, ClusterID, remove=true); Handle takes the finalizer
\* off (and Reconcile then updates the Ingress) exactly when that call
\* succeeded, and the finalizer leaves the stored Ingress only with the
\* endpoints of the cluster withdrawn; when the call fails the pass leaves the
\* stored Ingress and the endpoints of the cluster as they are and the error
\* is returned with a requeue after 10 seconds.
C19_WithdrawBeforeFinalizerRemoval ==
  [][\A c \in Clusters :
       (/\ EndsPass(c)
        /\ PassOf(c).current.exists
        /\ PassOf(c).current.deletionTimestamp) =>
         /\ ingressPass'.fetched = <<>>
         /\ workloadSecrets'[c] = PassOf(c).before.local
         /\ \A i \in DOMAIN ingressPass'.patches :
              ingressPass'.patches[i] = PatchCall({}, PassOf(c).current.hosts, c, TRUE)
         /\ ingressPass'.update # "none" <=>
              (~ingressPass'.err /\ Len(ingressPass'.patches) = 1)
         /\ ingressPass'.err =>
              /\ ingress'[c] = ingress[c]
              /\ \A h \in AllHosts :
                   EndpointsOf(c, h)' = EndpointsIn(PassOf(c).before.record, c, h)
              /\ Len(ingressPass'.patches) = 1 => ingressPass'.res = RequeueAfter10s
         /\ TrafficFinalizer \notin ingress'[c].finalizers =>
              /\ ~ingressPass'.err
              /\ ingressPass'.update = "stored"
              /\ \A h \in AllHosts : EndpointsOf(c, h)' = {}]_vars

\* The Ingress of c1, which had published an address and carried the
\* finalizer, was deleted; the pass withdrew the endpoints and the Ingress
\* went with its finalizer.
C19_Witness ==
  /\ ingressPass.cluster = "c1"
  /\ ingressPass.fetched = <<>>
  /\ ingressPass.patches = <<PatchCall({}, OneHost, "c1", TRUE)>>
  /\ ingressPass.update = "stored"
  /\ ~ingressPass.err
  /\ ~ingress["c1"].exists
  /\ workloadSecrets["c1"]["h1"] # NoSecret
  /\ dnsRecord["h1"] = {}
  /\ envBudget = 0

\* C20 (Ingress waits for secrets): a pass over a non-deleting Ingress in
\* which GetCertificateSecret answers NotFound for a host returns no error
\* and a requeue after 10 seconds, and calls PatchTargets not at all.
C20_RequeueOnMissingSecret ==
  [][(/\ EndsPass("c1")
      /\ PassOf("c1").current.exists
      /\ ~PassOf("c1").current.deletionTimestamp
      /\ \E i \in DOMAIN ingressPass'.fetched :
           ingressPass'.fetched[i].result = "NotFound") =>
       /\ ~ingressPass'.err
       /\ ingressPass'.res = RequeueAfter10s
       /\ ingressPass'.patches = <<>>]_vars

----------------------------------------------------------------------------
(* Claims about the Gateway traffic accessor                                *)

\* The TLS block AddTLS writes for a secret in the namespace of the Gateway.
TLSOf(secretName, namespace) ==
  [set |-> TRUE, certificateRefs |-> <<[Name |-> secretName, Namespace |-> namespace]>>]

\* C21 (AddTLS result): AddTLS(host, secret) leaves as many listeners in the
\* same order; a listener of the host has the TLS block that references the
\* secret in the Gateway's namespace and is otherwise as before, every other
\* listener is unchanged; a host of no listener leaves the Gateway as it was,
\* and the same call once more changes nothing.
C21_AddTLSResult ==
  accessor.last.op = "AddTLS" =>
    LET before == accessor.last.before
        after == accessor.last.after
        host == accessor.last.host
    IN /\ Len(after.listeners) = Len(before.listeners)
       /\ \A i \in DOMAIN before.listeners :
            after.listeners[i] =
              IF before.listeners[i].hostname = host
              THEN [before.listeners[i] EXCEPT
                      !.tls = TLSOf(accessor.last.secret, before.namespace)]
              ELSE before.listeners[i]
       /\ [after EXCEPT !.listeners = before.listeners] = before
       /\ (\A i \in DOMAIN before.listeners : before.listeners[i].hostname # host)
            => after = before
       /\ AddTLS(after, host, accessor.last.secret) = after

\* AddTLS on two listeners, the first of the host and the second of another
\* host with a TLS block of its own: the first changed, the second did not.
C21_Witness ==
  /\ accessor.last.op = "AddTLS"
  /\ Len(accessor.last.before.listeners) = 2
  /\ accessor.last.before.listeners[1].hostname = accessor.last.host
  /\ accessor.last.before.listeners[2].hostname # accessor.last.host
  /\ accessor.last.before.listeners[2].tls.set
  /\ accessor.last.after.listeners[1].tls # accessor.last.before.listeners[1].tls
  /\ accessor.last.after.listeners[2] = accessor.last.before.listeners[2]

\* C22 (RemoveTLS result): after RemoveTLS(hosts) every listener whose
\* hostname is in hosts has no TLS block, every other listener is unchanged,
\* and the listeners are as many in the same order.
C22_RemoveTLSResult ==
  accessor.last.op = "RemoveTLS" =>
    LET before == accessor.last.before
        after == accessor.last.after
    IN /\ Len(after.listeners) = Len(before.listeners)
       /\ \A i \in DOMAIN before.listeners :
            after.listeners[i] =
              IF before.listeners[i].hostname \in Range(accessor.last.hosts)
              THEN [before.listeners[i] EXCEPT !.tls = NoTLS]
              ELSE before.listeners[i]

\* C23 (AddManagedHost unsupported): AddManagedHost on a Gateway fails with
\* Unsupported for every host and leaves the Gateway unchanged.
C23_AddManagedHostUnsupported ==
  accessor.last.op = "AddManagedHost" =>
    /\ accessor.last.err = "Unsupported"
    /\ accessor.last.after = accessor.last.before

\* The TLSConfigs the listeners with a TLS block and a first certificate ref
\* stand for, in listener order.
RECURSIVE ExpectedTLSFrom(_, _)
ExpectedTLSFrom(listeners, i) ==
  IF i > Len(listeners) THEN <<>>
  ELSE IF listeners[i].tls.set /\ Len(listeners[i].tls.certificateRefs) > 0
  THEN <<TLSConfig(<<listeners[i].hostname>>, listeners[i].tls.certificateRefs[1].Name)>>
         \o ExpectedTLSFrom(listeners, i + 1)
  ELSE ExpectedTLSFrom(listeners, i + 1)

\* C24 (GetTLS): GetTLS returns, without aborting, one TLSConfig per listener
\* with a TLS block, its Hosts the list of that listener's hostname alone and
\* its SecretName the name of the first certificate ref.
C24_GetTLSConfigs ==
  accessor.last.op = "GetTLS" =>
    /\ ~accessor.last.panic
    /\ accessor.last.tls = ExpectedTLSFrom(accessor.last.before.listeners, 1)

----------------------------------------------------------------------------
(* More claims about the Gateway reconciler                                 *)

\* The pass failed at RegisterHost or AddEndPoints after a Secret update.
FailedAtDNSAfterSecretUpdate(log) ==
  /\ log.ran /\ log.err
  /\ \E i \in DOMAIN log.calls :
       log.calls[i].op \in {"RegisterHost", "AddEndPoints"} /\ log.calls[i].result = "error"
  /\ \E i \in DOMAIN log.calls :
       log.calls[i].op = "Secret.Update" /\ log.calls[i].result = "ok"

\* C25 (no rollback, next pass converges): a pass that fails at RegisterHost
\* or AddEndPoints after it updated Secret annotations leaves those Secrets
\* (as they were when it began, or as cert-manager issued them since)
\* annotated, takes no Certificate away and leaves the stored Programmed
\* condition at Unknown (Pending); the next pass over the Gateway in which no
\* call fails stores Programmed=True and the Gateway with its TLS references
\* and sync annotations, creates no Certificate and writes no Secret.
C25_NoRollbackThenConverge ==
  [][(GwPassEnds) =>
       /\ FailedAtDNSAfterSecretUpdate(gwPass') =>
            /\ \A h \in GatewayHosts :
                 CalledWith(gwPass', "Secret.Update", h, "ok") =>
                   /\ gwSecrets'[h] # Before.secrets[h]
                   /\ \E fetched \in {Before.secrets[h], NewGwSecret} :
                        /\ fetched.exists
                        /\ gwSecrets'[h] = SecretSync(fetched, gwPass'.clusters).updatedSecret
            /\ Before.certs \subseteq certificates'
            /\ Len(gateway'.conditions) = 2
            /\ IsWaiting(gateway'.conditions[2])
            /\ gateway'.listeners = Before.gateway.listeners
            /\ gateway'.annotations = Before.gateway.annotations
       /\ (/\ FailedAtDNSAfterSecretUpdate(gwPass)
           /\ gwPass'.ran /\ gwPass'.selected
           /\ ~gwPass'.err /\ ~Failed(gwPass')) =>
            /\ Len(gateway'.conditions) = 2
            /\ gateway'.conditions[2].Status = "True"
            /\ CarriesTLSAndSync(gateway')
            /\ CalledWith(gwPass', "Gateway.Update", "", "ok")
            /\ certificates' = Before.certs
            /\ gwSecrets' = Before.secrets
            /\ ~Called(gwPass', {"Secret.Update"})]_vars

\* A pass over a two-host Gateway annotated the secret of the second host,
\* registered the first host and failed at RegisterHost of the second; both
\* secrets carry the sync annotation, the Gateway none, Programmed is Unknown
\* and another pass can follow.
C25_Witness ==
  /\ FailedAtDNSAfterSecretUpdate(gwPass)
  /\ CalledWith(gwPass, "Secret.Update", "shop.custom.org", "ok")
  /\ CalledWith(gwPass, "RegisterHost", "svc.eu.example.com", "ok")
  /\ CalledWith(gwPass, "RegisterHost", "shop.custom.org", "error")
  /\ \A h \in {"svc.eu.example.com", "shop.custom.org"} :
       gwSecrets[h].annotations[SyncAnnotationKey("test_cluster_one")] = "True"
  /\ SyncAnnotationKey("test_cluster_one") \notin DOMAIN gateway.annotations
  /\ IsWaiting(gateway.conditions[2])
  /\ clock < MaxClock

\* The place of the first call of a pass to one of ops, 0 when there is none.
FirstCall(log, ops) ==
  IF Called(log, ops)
  THEN CHOOSE i \in DOMAIN log.calls :
         /\ log.calls[i].op \in ops
         /\ \A j \in 1..(i - 1) : log.calls[j].op \notin ops
  ELSE 0

\* C27 (stage order within a pass): a pass that calls RegisterHost or
\* AddEndPoints has updated the Gateway with its TLS references and sync
\* annotations before the first of these calls, so that a pass failing in the
\* DNS part leaves the stored Gateway with the sync annotations of the
\* selected clusters.
C27_StageOrder ==
  [][(GwPassEnds /\ Called(gwPass', {"RegisterHost", "AddEndPoints"})) =>
       /\ Called(gwPass', {"Gateway.Update"}) =>
            FirstCall(gwPass', {"Gateway.Update"})
              < FirstCall(gwPass', {"RegisterHost", "AddEndPoints"})
       /\ \A k \in SyncKeys(gwPass'.clusters) : k \in DOMAIN gateway'.annotations]_vars

----------------------------------------------------------------------------
(* Claims about the start of the agent                                      *)

\* C26 (fatal bootstrap in the agent): once main is past a load of the
\* control-plane config secret that failed, or past a client that could not
\* be built from the secret, the process has exited with a non-zero code and
\* the Ingress reconciler was neither registered nor started; the reconciler
\* is registered and started only with the secret loaded and the client
\* built, its ClusterID being the "name" entry of the secret.
C26_FatalBootstrap ==
  LET cannotLoad == ~agent.secret.exists \/ agent.fault = "get"
      cannotBuild == ~agent.secret.usable
      pastLoad == agent.pc \notin {"NewManager", "GetSecret"}
      pastBuild == pastLoad /\ agent.pc # "ClientFromSecret"
      fatal == /\ agent.pc = "exited"
               /\ agent.exitCode # 0 /\ agent.exitCode # Running
               /\ ~agent.reconciler.registered
               /\ ~agent.started
  IN /\ (pastLoad /\ cannotLoad) => fatal
     /\ (pastBuild /\ cannotBuild) => fatal
     /\ agent.started => agent.reconciler.registered
     /\ agent.reconciler.registered =>
          /\ agent.loaded /\ agent.client
          /\ agent.secret.exists /\ agent.secret.usable /\ agent.fault # "get"
          /\ agent.reconciler.ClusterID = agent.secret.name

\* The secret of cluster c2 was loaded, no client could be built from it, and
\* the process exited with code 1 without a reconciler.
C26_Witness ==
  /\ agent.pc = "exited"
  /\ agent.exitCode = 1
  /\ agent.secret.exists /\ agent.secret.name = "c2" /\ ~agent.secret.usable
  /\ agent.loaded /\ ~agent.client
  /\ agent.fault = "none"
  /\ ~agent.reconciler.registered /\ ~agent.started

----------------------------------------------------------------------------
(* Claims about the Ingress agent with two hosts                            *)

\* C28 (Ingress persistence failures are retryable): a pass in which Handle
\* changed the Ingress (finalizer, TLS) and the Update that stores the change
\* failed returns an error or a requeue.
C28_UpdateFailureRetried ==
  [][(/\ EndsPass("c1")
      /\ ingressPass'.update = "failed") =>
       (ingressPass'.err \/ ingressPass'.res.Requeue)]_vars

\* The hosts for which copySecretToWorkloadCluster returned success in the
\* pass: their secret was fetched and the pass went on after the copy.
CopiedHosts(log) ==
  {log.fetched[j].host :
     j \in {k \in DOMAIN log.fetched :
              /\ log.fetched[k].result = "ok"
              /\ k < Len(log.fetched) \/ Len(log.patches) = 1}}

\* C29 (secret copy is create-or-update): after a pass over a non-deleting
\* Ingress, every host whose secret copy returned success has in the workload
\* cluster a secret with the data of the hub secret, whether or not there was
\* one before, and the pass stores TLS only for such hosts.
C29_CopyCreateOrUpdate ==
  [][(/\ EndsPass("c1")
      /\ PassOf("c1").current.exists
      /\ ~PassOf("c1").current.deletionTimestamp) =>
       /\ \A h \in CopiedHosts(ingressPass') :
            /\ hubSecrets'[h] # NoSecret
            /\ workloadSecrets'["c1"][h] = hubSecrets'[h]
       /\ \A t \in ingress'["c1"].tls \ ingress["c1"].tls :
            /\ t.host \in CopiedHosts(ingressPass')
            /\ workloadSecrets'["c1"][t.host] = hubSecrets'[t.host]]_vars

\* C30 (empty targets are treated like deletion): a pass over a non-deleting
\* Ingress that found the secret of every host and has no DNS target calls
\* PatchTargets once, with remove=true for its ClusterID, and on success takes
\* the finalizer off (stored unless the Update fails) and the endpoints of
\* the cluster out of the record; a pass adds the finalizer only when the
\* Ingress is not deleting, has targets, and PatchTargets(remove=false) with
\* them succeeded.
C30_EmptyTargetsWithdraw ==
  [][(EndsPass("c1") /\ PassOf("c1").current.exists) =>
       LET current == PassOf("c1").current
       IN /\ (/\ ~current.deletionTimestamp
              /\ IngressGetDNSTargets(current) = {}
              /\ Len(ingressPass'.fetched) = Len(current.hosts)
              /\ \A j \in DOMAIN ingressPass'.fetched : ingressPass'.fetched[j].result = "ok"
              /\ ingressPass'.patches # <<>>) =>
               /\ ingressPass'.patches = <<PatchCall({}, current.hosts, "c1", TRUE)>>
               /\ ingressPass'.err =>
                    /\ ingressPass'.res = RequeueAfter10s
                    /\ ingress'["c1"] = ingress["c1"]
                    /\ \A h \in AllHosts :
                         EndpointsOf("c1", h)' = EndpointsIn(PassOf("c1").before.record, "c1", h)
               /\ ~ingressPass'.err =>
                    /\ \A h \in Range(current.hosts) : EndpointsOf("c1", h)' = {}
                    /\ ingressPass'.update # "failed" =>
                         TrafficFinalizer \notin ingress'["c1"].finalizers
          /\ (/\ TrafficFinalizer \in ingress'["c1"].finalizers
              /\ TrafficFinalizer \notin ingress["c1"].finalizers) =>
               /\ ~current.deletionTimestamp
               /\ IngressGetDNSTargets(current) # {}
               /\ ~ingressPass'.err
               /\ ingressPass'.patches =
                    <<PatchCall(IngressGetDNSTargets(current), current.hosts,
                                "c1", FALSE)>>]_vars

\* A pass over a non-deleting Ingress without load-balancer addresses whose
\* two secrets were there called PatchTargets with remove=true and stored the
\* Ingress: the record holds no endpoint and the Ingress no finalizer.
C30_Witness ==
  /\ ingress["c1"].exists /\ ~ingress["c1"].deletionTimestamp
  /\ ingress["c1"].lbStatus = {}
  /\ ingressPass.patches = <<PatchCall({}, TwoHosts, "c1", TRUE)>>
  /\ ~ingressPass.err
  /\ ingressPass.update = "stored"
  /\ TrafficFinalizer \notin ingress["c1"].finalizers
  /\ Cardinality(ingress["c1"].tls) = 2
  /\ \A h \in AllHosts : dnsRecord[h] = {}

----------------------------------------------------------------------------
(* Claims about the errors and the status of a Gateway pass                 *)

\* The hosts of the Gateway from host on, in the order of GetHosts.
HostsFrom(gw, host) ==
  LET hosts == GetHosts(gw)
  IN {hosts[j] : j \in {k \in DOMAIN hosts :
                          \E i \in 1..k : hosts[i] = host}}

\* C31 (certificate ensure errors): in a pass, an EnsureCertificate that
\* answers AlreadyExists is followed by the GetCertificateSecret of the same
\* host; an EnsureCertificate that fails otherwise, and a GetCertificateSecret
\* that fails otherwise than with NotFound, is the last call of the pass, which
\* returns the error, and the pass has updated no secret and attached no TLS
\* for that host or a later one and made no DNS call.
C31_EnsureErrors ==
  [][(GwPassEnds) =>
       \A i \in DOMAIN gwPass'.calls :
         LET call == gwPass'.calls[i]
         IN /\ (call.op = "EnsureCertificate" /\ call.result = "AlreadyExists") =>
                 /\ i < Len(gwPass'.calls)
                 /\ gwPass'.calls[i + 1].op = "GetCertificateSecret"
                 /\ gwPass'.calls[i + 1].host = call.host
            /\ (/\ call.op \in {"EnsureCertificate", "GetCertificateSecret"}
                /\ call.result = "error") =>
                 /\ i = Len(gwPass'.calls)
                 /\ gwPass'.err
                 /\ gwPass'.res = NoRequeue
                 /\ \A h \in HostsFrom(Before.gateway, call.host) :
                      /\ CallsOf(gwPass', "Secret.Update", h) = {}
                      /\ CallsOf(gwPass', "GetCertificateSecret", h) \subseteq {i}
                      /\ SecretUnwritten(h)
                 /\ gateway'.listeners = Before.gateway.listeners
                 /\ ~Called(gwPass', {"RegisterHost", "AddEndPoints", "Gateway.Update"})
                 /\ gwRecords' = Before.records]_vars

\* A pass over a two-host Gateway found the Certificate of the first host
\* (AlreadyExists), fetched and annotated its secret, and failed at the
\* EnsureCertificate of the second host.
C31_Witness ==
  /\ gwPass.ran /\ gwPass.err
  /\ CalledWith(gwPass, "EnsureCertificate", "svc.eu.example.com", "AlreadyExists")
  /\ CalledWith(gwPass, "GetCertificateSecret", "svc.eu.example.com", "ok")
  /\ CalledWith(gwPass, "Secret.Update", "svc.eu.example.com", "ok")
  /\ CalledWith(gwPass, "EnsureCertificate", "shop.custom.org", "error")
  /\ "shop.custom.org" \notin certificates
  /\ \A i \in DOMAIN gateway.listeners : ~gateway.listeners[i].tls.set

\* C32 (ObservedGeneration): every status write of a pass carries exactly the
\* two conditions Accepted and Programmed, both with the generation of the
\* Gateway the pass fetched as ObservedGeneration, and the ObservedGeneration
\* of the stored conditions never decreases.
C32_ObservedGeneration ==
  [][/\ GwPassEnds =>
          \A i \in DOMAIN gwPass'.calls :
            gwPass'.calls[i].op = "Status.Update" =>
              /\ Len(gwPass'.calls[i].conditions) = 2
              /\ gwPass'.calls[i].conditions[1].Type = "Accepted"
              /\ gwPass'.calls[i].conditions[2].Type = "Programmed"
              /\ \A k \in 1..2 :
                   gwPass'.calls[i].conditions[k].ObservedGeneration
                     = Before.gateway.generation
     /\ Len(gateway.conditions) = 2 =>
          /\ Len(gateway'.conditions) = 2
          /\ \A k \in 1..2 :
               gateway'.conditions[k].ObservedGeneration
                 >= gateway.conditions[k].ObservedGeneration]_vars

\* A pass fetched the Gateway at generation 2 with conditions stored for
\* generation 1 and stored both conditions for generation 2.
C32_Witness ==
  /\ gwPass.ran
  /\ gwPass.previous.generation = 2
  /\ Len(gwPass.previous.conditions) = 2
  /\ gwPass.previous.conditions[2].ObservedGeneration = 1
  /\ Len(StatusWrites(gwPass)) > 0
  /\ Len(gateway.conditions) = 2
  /\ gateway.conditions[1].ObservedGeneration = 2
  /\ gateway.conditions[2].ObservedGeneration = 2

\* C33 (selectClusters): a pass selects the one cluster test_cluster_one
\* exactly when the annotation kuadrant.io/gateway-cluster-label-selector of
\* the Gateway is "type=test", and no cluster otherwise (no annotations, none
\* with that key, another selector); the selection leaves the Gateway the
\* pass fetched as it is stored.
C33_SelectClusters ==
  [][(GwPassEnds /\ gwPass'.selected) =>
       /\ gwPass'.clusters =
            IF /\ GatewayClusterLabelSelectorAnnotation \in DOMAIN Before.gateway.annotations
               /\ Before.gateway.annotations[GatewayClusterLabelSelectorAnnotation] = "type=test"
            THEN <<"test_cluster_one">>
            ELSE <<>>
       /\ gwPass'.previous = Before.gateway
       /\ gwPass'.clusters = <<>> =>
            /\ gateway'.annotations = Before.gateway.annotations
            /\ gateway'.listeners = Before.gateway.listeners]_vars

\* A pass over a Gateway with the selector type=prod selected no cluster.
C33_Witness ==
  /\ gwPass.ran /\ gwPass.selected
  /\ GatewayClusterLabelSelectorAnnotation \in DOMAIN gwPass.previous.annotations
  /\ gwPass.previous.annotations[GatewayClusterLabelSelectorAnnotation] = "type=prod"
  /\ gwPass.clusters = <<>>
  /\ gateway.annotations = gwPass.previous.annotations

\* C34 (missing or deleting Gateway): a pass for a Gateway that is not found
\* or has a deletion timestamp ends at the Get of the Gateway and returns no
\* error and no requeue, a pass whose Get of the Gateway fails otherwise ends
\* there and returns the error, and both make no call and change neither the
\* Gateway nor a Secret, a Certificate or a DNS record.
C34_MissingOrDeleting ==
  [][/\ (GwGet(FALSE) /\ ~Live(gateway)) =>
          /\ gwRun'.pc = "idle"
          /\ ~gwPass'.err
          /\ gwPass'.res = NoRequeue
          /\ gwPass'.calls = <<>>
          /\ gateway' = gateway
          /\ gwSecrets' = gwSecrets
          /\ certificates' = certificates
          /\ gwRecords' = gwRecords
     /\ GwGet(TRUE) =>
          /\ gwRun'.pc = "idle"
          /\ gwPass'.err
          /\ gwPass'.calls = <<>>
          /\ gateway' = gateway
          /\ gwSecrets' = gwSecrets
          /\ certificates' = certificates
          /\ gwRecords' = gwRecords]_vars

\* A pass ran for a Gateway with a deletion timestamp whose hosts have DNS
\* records with endpoints: it made no call and the records are as they were.
C34_Witness ==
  /\ gwPass.ran /\ ~gwPass.err
  /\ gwPass.previous.exists /\ gwPass.previous.deletionTimestamp
  /\ gwPass.calls = <<>>
  /\ gateway = gwPass.previous
  /\ \E h \in GatewayHosts : gwRecords[h].exists /\ gwRecords[h].endpoints # {}

(* Claims about the termination of WebhookServer.Start *)

\* Start returned from its select (not from CreateHandler or InjectLogger).
ReturnedFromSelect(w) ==
  w.pc = "returned" /\ w.result \in {"listenError", "nil", "deadlineExceeded"}

\* C35: Start returns from its wait exactly on the first of two events, with
\* the listener's error when the listener failed, nil when the context was
\* cancelled and the context's error otherwise; and once Start has returned
\* nil for a cancelled context, the listener is no longer up, no request is
\* accepted any more, and the goroutine is not blocked sending on httpErr.
C35_StartTermination ==
  /\ [](ReturnedFromSelect(webhook) =>
          /\ webhook.result = "listenError" => webhook.server = "failed"
          /\ webhook.result = "nil" => webhook.ctx = "canceled"
          /\ webhook.result = "deadlineExceeded" => webhook.ctx = "deadlineExceeded")
  /\ []((webhook.pc = "returned" /\ webhook.result = "nil") =>
          /\ webhook.server # "listening"
          /\ webhook.goroutine # "sending")
  /\ [][(webhook.pc = "returned" /\ webhook.result = "nil") =>
          webhook'.accepted = webhook.accepted]_vars

====
